---- MODULE Spec2Model ----
(***************************************************************************)
(* Divvy bikeshare ingestion: the trips loader (process_all_files), the    *)
(* weather DAG (check_existing_files, process_location_year,               *)
(* generate_final_report), the manual weather script and the GBFS loader,  *)
(* all writing to one destination bucket.                                  *)
(***************************************************************************)
EXTENDS Integers, Sequences, FiniteSets, TLC

VARIABLES
    ku1, ku2,       \* key builders: the two units whose keys are compared
    kk1, kk2,       \* key builders: the keys built for them ("" = not built)
    path,           \* which program runs: "keys", "trips", ...
    faults,         \* errors of the store, the network or the API injected so far
    reachable,      \* can the destination bucket be reached at all
    dstate,         \* dbt DAG: task -> its state and try number in the DAG run
    store,          \* destination bucket: key -> object body
    source,         \* divvy-tripdata bucket: source key -> archive
    trun,           \* trips: which invocation of process_all_files this is
    tpc,            \* trips: position inside the loop body
    ti,             \* trips: index into files_to_process
    zip_content,    \* trips: local of the loop body
    csv_content,    \* trips: local of the loop body
    results,        \* trips: results list
    counters,       \* trips: successful_files, skipped_files, failed_files
    summary,        \* trips: the returned dictionary
    tcur,           \* trips: what the current unit has done so far (history)
    thist,          \* trips: per-run totals (history)
    tprev,          \* trips: the previous run's totals (history)
    fscript,        \* weather fetch: what the API answers to the 1st, 2nd, ... request
    fresult,        \* weather fetch: what fetch_weather_data_for_month did
    wrun,           \* weather DAG: which DAG run this is
    wpc,            \* weather DAG: the task the run has reached
    existing_files_info, \* weather DAG: what check_existing_files returned (XCom)
    wtask,          \* weather DAG: per process_<location>_<year> task, its loop state
    final_report,   \* weather DAG: what generate_final_report returned
    whist,          \* weather DAG: per-run totals (history)
    wprev,          \* weather DAG: the previous run's totals and report (history)
    mrun,           \* manual script: which invocation of main this is
    mpc,            \* manual script: position inside main
    missing,        \* manual script: missing_files, what get_missing_files returned
    mi,             \* manual script: index into missing_files
    successful_uploads, \* manual script: keys uploaded
    failed_uploads, \* manual script: (location, year, month, error) of failures
    completion_percentage, \* manual script: the final status
    mhist,          \* manual script: per-run totals (history)
    mprev,          \* manual script: the previous run's totals and status (history)
    grun,           \* GBFS: which DAG run this is
    execution_date, \* GBFS: context['execution_date'] of the DAG run
    gresult,        \* GBFS: per fetch task, the key it returned, "" or "raised"
    ghist,          \* GBFS: per-run totals (history)
    validation      \* GBFS: what list_keys does per endpoint, and the validation report

keyVars == <<ku1, ku2, kk1, kk2>>
tripVars == <<source, trun, tpc, ti, zip_content, csv_content, results, counters,
              summary, tcur, thist, tprev>>
vars == <<ku1, ku2, kk1, kk2, path, faults, reachable, dstate, store, source, trun, tpc, ti, zip_content, csv_content,
          results, counters, summary, tcur, thist, tprev, fscript, fresult,
          wrun, wpc, existing_files_info, wtask, final_report, whist, wprev,
          mrun, mpc, missing, mi, successful_uploads, failed_uploads,
          completion_percentage, mhist, mprev,
          grun, execution_date, gresult, ghist, validation>>
manualVars == <<mrun, mpc, missing, mi, successful_uploads, failed_uploads,
                completion_percentage, mhist, mprev>>
gbfsVars == <<grun, execution_date, gresult, ghist, validation>>
fetchVars == <<fscript, fresult>>
weatherVars == <<wrun, wpc, existing_files_info, wtask, final_report, whist, wprev>>

(***************************************************************************)
(* Configuration                                                           *)
(***************************************************************************)
YEARS_TO_PROCESS == <<2023, 2024>>
MONTHS_TO_PROCESS == 1..12
TARGET_BRONZE_PREFIX == "divvy-trips"

LOCATIONS == <<"chicago", "evanston">>
YEARS == <<2023, 2024>>
MONTHS == 1..12

GBFS_ENDPOINTS == <<"station_information", "station_status", "system_information">>
S3_BRONZE_PREFIX == "gbfs-data"

Range(s) == {s[n] : n \in 1..Len(s)}

(***************************************************************************)
(* String formatting                                                       *)
(***************************************************************************)
\* f"{n:02d}" and strftime's %m %d %H %M %S
Pad2(n) == IF n < 10 THEN "0" \o ToString(n) ELSE ToString(n)

\* f"{n:04d}" and strftime's %Y
Pad4(n) ==
    IF n < 10 THEN "000" \o ToString(n)
    ELSE IF n < 100 THEN "00" \o ToString(n)
    ELSE IF n < 1000 THEN "0" \o ToString(n)
    ELSE ToString(n)

(***************************************************************************)
(* Storage keys                                                            *)
(***************************************************************************)
SourceKey(year, month) == Pad4(year) \o Pad2(month) \o "-divvy-tripdata.zip"

TargetFilename(year, month) == Pad4(year) \o Pad2(month) \o "-divvy-tripdata.csv"

\* a key that leaves the month out of the partition path
TargetKeyNoMonth(year, month) ==
    TARGET_BRONZE_PREFIX \o "/year=" \o ToString(year) \o "/" \o Pad4(year)
        \o "-divvy-tripdata.csv"

TargetKey(year, month) ==
    TARGET_BRONZE_PREFIX \o "/year=" \o ToString(year) \o "/month=" \o Pad2(month)
        \o "/" \o TargetFilename(year, month)

\* a key that names the year and the month only
WeatherKeyNoLocation(location, year, month) ==
    "weather-data/year=" \o ToString(year) \o "/month=" \o Pad2(month)
        \o "/weather_data_" \o ToString(year) \o "_" \o Pad2(month) \o ".csv"

\* s3_key = f"weather-data/location={location}/year={year}/month={month:02d}/
\*           weather_data_{location}_{year}_{month:02d}.csv"
WeatherKey(location, year, month) ==
    "weather-data/location=" \o location \o "/year=" \o ToString(year)
        \o "/month=" \o Pad2(month) \o "/weather_data_" \o location \o "_"
        \o ToString(year) \o "_" \o Pad2(month) \o ".csv"

\* a timestamp printed to the minute
TimestampToMinute(d) ==
    Pad4(d.year) \o "-" \o Pad2(d.month) \o "-" \o Pad2(d.day) \o "_"
        \o Pad2(d.hour) \o "-" \o Pad2(d.minute)

\* execution_date.strftime('%Y-%m-%d_%H-%M-%S'): the microsecond is not printed
Timestamp(d) ==
    Pad4(d.year) \o "-" \o Pad2(d.month) \o "-" \o Pad2(d.day) \o "_"
        \o Pad2(d.hour) \o "-" \o Pad2(d.minute) \o "-" \o Pad2(d.second)

GbfsKey(endpoint_name, d) ==
    IF endpoint_name = "station_status"
    THEN S3_BRONZE_PREFIX \o "/endpoint=" \o endpoint_name \o "/year=" \o ToString(d.year)
            \o "/month=" \o Pad2(d.month) \o "/day=" \o Pad2(d.day) \o "/hour="
            \o Pad2(d.hour) \o "/" \o endpoint_name \o "_" \o Timestamp(d) \o ".json"
    ELSE S3_BRONZE_PREFIX \o "/endpoint=" \o endpoint_name \o "/year=" \o ToString(d.year)
            \o "/month=" \o Pad2(d.month) \o "/day=" \o Pad2(d.day)
            \o "/" \o endpoint_name \o "_" \o Timestamp(d) \o ".json"

(***************************************************************************)
(* Units of work.  A unit is a tuple headed by its source.                 *)
(***************************************************************************)
TripUnits == {<<"trips", y, m>> : y \in Range(YEARS_TO_PROCESS), m \in MONTHS_TO_PROCESS}

WeatherUnits ==
    {<<"weather", l, y, m>> : l \in Range(LOCATIONS), y \in Range(YEARS), m \in MONTHS}

\* execution dates the scheduler may hand to the GBFS tasks
ExecDates ==
    [year : {2025}, month : {7}, day : {27, 28}, hour : {9, 14}, minute : {5},
     second : {0, 1}, microsecond : {0, 500000}]

GbfsUnits == {<<"gbfs", e, d>> : e \in Range(GBFS_ENDPOINTS), d \in ExecDates}

AllUnits == TripUnits \cup WeatherUnits \cup GbfsUnits

BuildKey(u) ==
    CASE u[1] = "trips" -> TargetKey(u[2], u[3])
      [] u[1] = "weather" -> WeatherKey(u[2], u[3], u[4])
      [] u[1] = "gbfs" -> GbfsKey(u[2], u[3])

\* the execution date as the key prints it: whole seconds
ToSecond(d) == [d EXCEPT !.microsecond = 0]

\* two units that differ at most in the sub-second part of a GBFS execution date
SameToSecond(u, v) ==
    \/ u = v
    \/ /\ u[1] = "gbfs" /\ v[1] = "gbfs"
       /\ u[2] = v[2]
       /\ ToSecond(u[3]) = ToSecond(v[3])

(***************************************************************************)
(* Bounds of the model                                                     *)
(***************************************************************************)
\* months of each year the runs enumerate (the configuration has 12)
NMonths == 2

\* errors of the store, the network or the API in one behaviour
MaxFaults == 1

\* process_all_files, and each weather program, is run twice in a row
RunIds == {1, 2}

(***************************************************************************)
(* The destination bucket and the source bucket                            *)
(***************************************************************************)
\* S3Hook.load_bytes / load_string / put_object with replace=True
Put(st, key, body) ==
    [k \in DOMAIN st \cup {key} |-> IF k = key THEN body ELSE st[k]]

\* S3Hook.check_for_key on the destination bucket
CheckForKey(key) == key \in DOMAIN store

\* a member name is the list of its parts, the extension last
CsvName(year, month) == <<Pad4(year) \o Pad2(month), "-", "divvy-tripdata", ".csv">>

CsvBytes(year, month) == <<"csv", year, month>>

ArchiveMembers(kind, year, month) ==
    CASE kind = "good" ->

            <<[name |-> <<"__MACOSX/", "notes", ".txt">>, bytes |-> <<"junk", 1>>],
              [name |-> CsvName(year, month), bytes |-> CsvBytes(year, month)],
              [name |-> <<"extra", "-", "divvy-tripdata", ".csv">>, bytes |-> <<"junk", 2>>]>>
      [] kind = "nomatch" ->
            <<[name |-> <<"readme", ".txt">>, bytes |-> <<"junk", 1>>],
              [name |-> <<"stations", ".csv">>, bytes |-> <<"junk", 2>>]>>
      [] kind = "corrupt" -> <<>>

\* the archives a source key may hold: is it a ZIP, and its members
Archive(kind, year, month) ==
    [is_zip |-> kind # "corrupt", members |-> ArchiveMembers(kind, year, month)]

NoZip == [is_zip |-> FALSE, members |-> <<>>]

NoBytes == <<>>

SourceKinds == {"absent", "good", "nomatch", "corrupt"}

(***************************************************************************)
(* generate_monthly_files                                                  *)
(***************************************************************************)
FileInfo(year, month) ==
    [year |-> year, month |-> month,
     source_key |-> SourceKey(year, month),
     target_key |-> TargetKey(year, month)]

\* for year in YEARS_TO_PROCESS: for month in months: append(file_info)
GenerateMonthlyFiles(nmonths) ==
    [n \in 1..(Len(YEARS_TO_PROCESS) * nmonths) |->
        FileInfo(YEARS_TO_PROCESS[((n - 1) \div nmonths) + 1], ((n - 1) % nmonths) + 1)]

files_to_process == GenerateMonthlyFiles(NMonths)

TripTargetKeys == {files_to_process[n].target_key : n \in 1..Len(files_to_process)}

(***************************************************************************)
(* Archive extraction                                                      *)
(***************************************************************************)
\* a name test that looks at the extension only
NameMatchesAnyCsv(name) == name[Len(name)] = ".csv"

\* filename.endswith('.csv') and 'divvy-tripdata' in filename
NameMatches(name) == name[Len(name)] = ".csv" /\ "divvy-tripdata" \in Range(name)

\* a selection that takes the first member, whatever its name
SelectFirstMember(members) == IF Len(members) > 0 THEN 1 ELSE 0

\* for filename in zip_file.namelist(): if matches: csv_filename = filename; break
\* (0 when no member matches)
SelectMember(members) ==
    IF \E n \in 1..Len(members) : NameMatches(members[n].name)
    THEN CHOOSE n \in 1..Len(members) :
            /\ NameMatches(members[n].name)
            /\ \A k \in 1..(n - 1) : ~NameMatches(members[k].name)
    ELSE 0

(***************************************************************************)
(* process_all_files                                                       *)
(***************************************************************************)
NoCur ==
    [fetched |-> FALSE, uploaded |-> FALSE, fault |-> FALSE, refetch |-> FALSE,
     requested |-> FALSE, checked |-> FALSE]

NewHist(st) ==
    [startKeys |-> DOMAIN st, requests |-> 0, downloads |-> 0, writes |-> 0, faults |-> 0]

NoSummary ==
    [total_files |-> 0, successful |-> 0, skipped |-> 0, failed |-> 0, results |-> <<>>]

NoCounters == [successful_files |-> 0, skipped_files |-> 0, failed_files |-> 0]

\* counters that take a skipped file for a successful one
CountSkippedAsSuccessful(status) ==
    CASE status \in {"success", "skipped_exists"} ->
            [counters EXCEPT !.successful_files = @ + 1]
      [] OTHER ->
            [counters EXCEPT !.failed_files = @ + 1]

\* successful_files += 1, skipped_files += 1, failed_files += 1 of the branches
Count(status) ==
    CASE status = "success" ->
            [counters EXCEPT !.successful_files = @ + 1]
      [] status = "skipped_exists" ->
            [counters EXCEPT !.skipped_files = @ + 1]
      [] status = "source_missing" ->
            [counters EXCEPT !.failed_files = @ + 1]
      [] status = "failed" ->
            [counters EXCEPT !.failed_files = @ + 1]

\* a loop that ends at the first exception
AfterFailureAbort(n) == Len(files_to_process) + 1

\* the loop goes on with the next file after an exception was caught
AfterFailure(n) == n + 1

\* a loop that takes a failed unit once more
AfterUnitAgain(n, status) == IF status = "failed" /\ faults = 0 THEN n ELSE n + 1

AfterUnit(n, status) == IF status = "failed" THEN AfterFailure(n) ELSE n + 1

\* an end of unit that leaves an empty object at the key of a failed unit
FinishWithPlaceholder(status, st, cur, hist) ==
    /\ results' = Append(results,
            [target_key |-> files_to_process[ti].target_key, status |-> status,
             fetched |-> cur.fetched, uploaded |-> cur.uploaded, fault |-> cur.fault])
    /\ counters' = Count(status)
    /\ ti' = AfterUnit(ti, status)
    /\ tpc' = IF AfterUnit(ti, status) > Len(files_to_process)
              THEN "return" ELSE "source_check"
    /\ store' = IF status = "failed"
                THEN Put(st, files_to_process[ti].target_key, NoBytes) ELSE st
    /\ tcur' = NoCur
    /\ thist' = hist
    /\ zip_content' = NoZip
    /\ csv_content' = NoBytes

\* the unit ends with `status`: file_info['status'], the counter, results.append
Finish(status, st, cur, hist) ==
    /\ results' = Append(results,
            [target_key |-> files_to_process[ti].target_key, status |-> status,
             fetched |-> cur.fetched, uploaded |-> cur.uploaded, fault |-> cur.fault])
    /\ counters' = Count(status)
    /\ ti' = AfterUnit(ti, status)
    /\ tpc' = IF AfterUnit(ti, status) > Len(files_to_process)
              THEN "return" ELSE "source_check"
    /\ store' = st
    /\ tcur' = NoCur
    /\ thist' = hist
    /\ zip_content' = NoZip
    /\ csv_content' = NoBytes

\* the unit goes on with its next step
Goto(pc, st, cur, hist, zip, csv) ==
    /\ tpc' = pc
    /\ store' = st
    /\ tcur' = cur
    /\ thist' = hist
    /\ zip_content' = zip
    /\ csv_content' = csv
    /\ UNCHANGED <<results, counters, ti>>

\* a call raises: an error of the store or of the network
Raise(hist) ==
    /\ faults < MaxFaults
    /\ faults' = faults + 1
    /\ Finish("failed", store, [tcur EXCEPT !.fault = TRUE],
              [hist EXCEPT !.faults = @ + 1])

\* a call to the destination bucket raises because the bucket cannot be reached
Unreachable(hist) ==
    /\ ~reachable
    /\ UNCHANGED faults
    /\ Finish("failed", store, [tcur EXCEPT !.fault = TRUE],
              [hist EXCEPT !.faults = @ + 1])

TripsRunning == path = "trips"

\* Step 1: s3_hook.check_for_key(source_key, DIVVY_SOURCE_BUCKET)
TripSourceCheck ==
    /\ TripsRunning /\ tpc = "source_check"
    /\ UNCHANGED <<keyVars, fetchVars, weatherVars, manualVars, gbfsVars, path, reachable, dstate, source, trun, summary, tprev>>
    /\ LET f == files_to_process[ti]
           h == [thist EXCEPT !.requests = @ + 1]
       IN  \/ /\ source[f.source_key] # "absent"
              /\ Goto("target_check", store, [tcur EXCEPT !.requested = TRUE], h,
                      zip_content, csv_content)
              /\ UNCHANGED faults
           \/ /\ source[f.source_key] = "absent"
              /\ Finish("source_missing", store, tcur, h)
              /\ UNCHANGED faults
           \/ Raise(h)

\* a target check that never finds the key
TargetExistsNever(key) == FALSE

\* Step 2: s3_hook.check_for_key(target_key, TARGET_BRONZE_BUCKET)
TargetExists(key) == CheckForKey(key)

TripTargetCheck ==
    /\ TripsRunning /\ tpc = "target_check"
    /\ UNCHANGED <<keyVars, fetchVars, weatherVars, manualVars, gbfsVars, path, reachable, dstate, source, trun, summary, tprev>>
    /\ LET f == files_to_process[ti]
       IN  \/ /\ reachable
              /\ TargetExists(f.target_key)
              /\ Finish("skipped_exists", store, tcur, thist)
              /\ UNCHANGED faults
           \/ Unreachable(thist)
           \/ /\ reachable
              /\ ~TargetExists(f.target_key)
              /\ Goto("download", store, [tcur EXCEPT !.checked = TRUE], thist,
                      zip_content, csv_content)
              /\ UNCHANGED faults
           \/ Raise(thist)

\* Step 3: s3_hook.get_key(source_key).get()['Body'].read()
TripDownload ==
    /\ TripsRunning /\ tpc = "download"
    /\ UNCHANGED <<keyVars, fetchVars, weatherVars, manualVars, gbfsVars, path, reachable, dstate, source, trun, summary, tprev>>
    /\ LET f == files_to_process[ti]
           h == [thist EXCEPT !.requests = @ + 1, !.downloads = @ + 1]
           c == [tcur EXCEPT !.fetched = TRUE,
                             !.refetch = CheckForKey(f.target_key)]
       IN  \/ /\ Goto("extract", store, c, h,
                      Archive(source[f.source_key], f.year, f.month), csv_content)
              /\ UNCHANGED faults
           \/ Raise(h)

\* Step 4: zipfile.ZipFile(BytesIO(zip_content)), namelist, read
TripExtract ==
    /\ TripsRunning /\ tpc = "extract"
    /\ UNCHANGED <<keyVars, fetchVars, weatherVars, manualVars, gbfsVars, path, reachable, dstate, source, trun, summary, tprev, faults>>
    /\ \/ /\ ~zip_content.is_zip
          /\ Finish("failed", store, tcur, thist)
       \/ /\ zip_content.is_zip
          /\ SelectMember(zip_content.members) = 0
          /\ Finish("failed", store, tcur, thist)
       \/ /\ zip_content.is_zip
          /\ SelectMember(zip_content.members) # 0
          /\ Goto("upload", store, tcur, thist, zip_content,
                  zip_content.members[SelectMember(zip_content.members)].bytes)

\* Step 5: s3_hook.load_bytes(csv_content, target_key, replace=True)
TripUpload ==
    /\ TripsRunning /\ tpc = "upload"
    /\ UNCHANGED <<keyVars, fetchVars, weatherVars, manualVars, gbfsVars, path, reachable, dstate, source, trun, summary, tprev>>
    /\ LET f == files_to_process[ti]
           c == [tcur EXCEPT !.uploaded = TRUE]
           h == [thist EXCEPT !.writes = @ + 1]
       IN  \/ /\ Goto("verify", Put(store, f.target_key, csv_content), c, h,
                      zip_content, csv_content)
              /\ UNCHANGED faults
           \/ \* the call returns and the object is not there
              /\ faults < MaxFaults
              /\ faults' = faults + 1
              /\ Goto("verify", store, [c EXCEPT !.fault = TRUE],
                      [h EXCEPT !.faults = @ + 1], zip_content, csv_content)
           \/ Raise(h)

\* Step 6: s3_hook.check_for_key(target_key, TARGET_BRONZE_BUCKET)
TripVerify ==
    /\ TripsRunning /\ tpc = "verify"
    /\ UNCHANGED <<keyVars, fetchVars, weatherVars, manualVars, gbfsVars, path, reachable, dstate, source, trun, summary, tprev>>
    /\ LET f == files_to_process[ti]
       IN  \/ /\ CheckForKey(f.target_key)
              /\ Finish("success", store, tcur, thist)
              /\ UNCHANGED faults
           \/ /\ ~CheckForKey(f.target_key)
              /\ Finish("failed", store, tcur, thist)
              /\ UNCHANGED faults
           \/ Raise(thist)

\* return {'total_files': ..., 'successful': ..., 'skipped': ..., 'failed': ..., 'results': ...}
TripReturn ==
    /\ TripsRunning /\ tpc = "return"
    /\ summary' = [total_files |-> Len(files_to_process),
                   successful |-> counters.successful_files,
                   skipped |-> counters.skipped_files,
                   failed |-> counters.failed_files,
                   results |-> results]
    /\ tpc' = "returned"
    /\ UNCHANGED <<keyVars, fetchVars, weatherVars, manualVars, gbfsVars, path, reachable, dstate, faults, store, source, trun, ti, zip_content,
                   csv_content, results, counters, tcur, thist, tprev>>

\* the scheduler runs the task again (schedule_interval='@daily')
TripNextRun ==
    /\ TripsRunning /\ tpc = "returned"
    /\ trun + 1 \in RunIds
    /\ trun' = trun + 1
    /\ tpc' = "source_check"
    /\ ti' = 1
    /\ results' = <<>>
    /\ counters' = NoCounters
    /\ summary' = NoSummary
    /\ tprev' = thist
    /\ thist' = NewHist(store)
    /\ UNCHANGED <<keyVars, fetchVars, weatherVars, manualVars, gbfsVars, path, reachable, dstate, faults, store, source, zip_content, csv_content, tcur>>

TripInit ==
    /\ source \in [{files_to_process[n].source_key : n \in 1..Len(files_to_process)}
                    -> SourceKinds]
    /\ trun = 1
    /\ tpc = "source_check"
    /\ ti = 1
    /\ zip_content = NoZip
    /\ csv_content = NoBytes
    /\ results = <<>>
    /\ counters = NoCounters
    /\ summary = NoSummary
    /\ tcur = NoCur
    /\ thist = NewHist(store)
    /\ tprev = NewHist(<<>>)

TripIdle ==
    /\ source = <<>>
    /\ trun = 0
    /\ tpc = "idle"
    /\ ti = 0
    /\ zip_content = NoZip
    /\ csv_content = NoBytes
    /\ results = <<>>
    /\ counters = NoCounters
    /\ summary = NoSummary
    /\ tcur = NoCur
    /\ thist = NewHist(<<>>)
    /\ tprev = NewHist(<<>>)

TripNext ==
    \/ TripSourceCheck
    \/ TripTargetCheck
    \/ TripDownload
    \/ TripExtract
    \/ TripUpload
    \/ TripVerify
    \/ TripReturn
    \/ TripNextRun

(***************************************************************************)
(* fetch_weather_data_for_month (the DAG and the manual script agree)      *)
(***************************************************************************)
API_RATE_LIMIT_DELAY == 2

\* a retry loop of two requests
max_retries_short == 1 + 1

max_retries == 3

\* answers of the API: 200 with 'daily', 200 without it, a 5xx, a 4xx, no answer
ResponseKinds == {"ok", "nodaily", "http500", "http404", "timeout"}

\* requests.get(...) or response.raise_for_status() raises a RequestException
RaisesRequestException(resp) == resp \in {"http500", "http404", "timeout"}

\* a wait that is the same before every retry
BackoffConstant(attempt) == API_RATE_LIMIT_DELAY

\* time.sleep(API_RATE_LIMIT_DELAY * (attempt + 1))
Backoff(attempt) == API_RATE_LIMIT_DELAY * (attempt + 1)

\* for attempt in range(max_retries): try: get; raise_for_status; break
\* except RequestException: if attempt == max_retries - 1: raise; sleep
RECURSIVE RetryLoop(_, _, _)
RetryLoop(script, attempt, sleeps) ==
    LET resp == script[attempt + 1]
    IN  IF ~RaisesRequestException(resp)
        THEN [response |-> resp, attempts |-> attempt + 1, sleeps |-> sleeps]
        ELSE IF attempt = max_retries - 1
        THEN [response |-> "raised", attempts |-> attempt + 1, sleeps |-> sleeps]
        ELSE RetryLoop(script, attempt + 1, Append(sleeps, Backoff(attempt)))

\* a fetch that does not look for 'daily' in the body
FetchWeatherUnchecked(script) ==
    LET r == RetryLoop(script, 0, <<>>)
    IN  [status |-> IF r.response \in {"ok", "nodaily"} THEN "ok" ELSE "failed",
         error |-> IF r.response \in {"ok", "nodaily"} THEN "none" ELSE "API request failed",
         response |-> r.response,
         attempts |-> r.attempts,
         sleeps |-> r.sleeps]

\* the whole function: the retry loop, then `if 'daily' not in data: raise`
FetchWeather(script) ==
    LET r == RetryLoop(script, 0, <<>>)
    IN  [status |-> IF r.response = "ok" THEN "ok" ELSE "failed",
         error |-> CASE r.response = "ok" -> "none"
                     [] r.response = "nodaily" -> "Invalid API response"
                     [] r.response = "raised" -> "API request failed",
         response |-> r.response,
         attempts |-> r.attempts,
         sleeps |-> r.sleeps]

\* is some request of a fetch sent less than API_RATE_LIMIT_DELAY after the
\* request before it: the first one when nothing slept since the last request
\* (unslept), a retry when the sleep before it is missing or shorter
SentUnthrottled(unslept, r) ==
    \/ unslept
    \/ Len(r.sleeps) # r.attempts - 1
    \/ \E n \in 1..Len(r.sleeps) : r.sleeps[n] < API_RATE_LIMIT_DELAY

\* answers the API may give to one unit's requests
MaxResponses == 4

Scripts == [1..MaxResponses -> ResponseKinds]

NoResult ==
    [status |-> "none", error |-> "none", response |-> "none", attempts |-> 0,
     sleeps |-> <<>>]

\* what the function can return or raise, over all the answers of the API
FetchOutcomes == {FetchWeather(script) : script \in Scripts}

FetchIdle ==
    /\ fscript = <<>>
    /\ fresult = NoResult

(***************************************************************************)
(* The weather keys of the bucket                                          *)
(***************************************************************************)
\* for location in LOCATIONS: for year in YEARS: for month in months
ExpectedFiles(nmonths) ==
    [n \in 1..(Len(LOCATIONS) * Len(YEARS) * nmonths) |->
        WeatherKey(LOCATIONS[((n - 1) \div (Len(YEARS) * nmonths)) + 1],
                   YEARS[(((n - 1) \div nmonths) % Len(YEARS)) + 1],
                   ((n - 1) % nmonths) + 1)]

expected_files == ExpectedFiles(NMonths)

ExpectedKeys == Range(expected_files)

\* validate_aws_connectivity's test object
test_key == "weather-data/test/connectivity_test.txt"

\* objects under weather-data/ that no unit owns: a CSV and a marker
StrayCsv == "weather-data/backup/weather_data_chicago_2022_12.csv"
StrayMarker == "weather-data/_SUCCESS"

\* list_objects_v2 returns at most this many keys in one response
MaxKeys == 1000

\* a full page of other objects under weather-data/, sorting before location=
bulk_files == [n \in 1..MaxKeys |-> "weather-data/archive/" \o Pad4(n) \o ".json"]

BulkKeys == Range(bulk_files)

\* key.startswith('weather-data/')
HasWeatherPrefix(key) ==
    key \in ExpectedKeys \cup {test_key, StrayCsv, StrayMarker} \cup BulkKeys

\* key.endswith('.csv')
EndsWithCsv(key) == key \in ExpectedKeys \cup TripTargetKeys \cup {StrayCsv}

\* s3_hook.list_keys(bucket_name=BUCKET_NAME, prefix='weather-data/') or []
ListWeatherKeys(st) == {k \in DOMAIN st : HasWeatherPrefix(k)}

\* (count / total) * 100, kept exact as a fraction
Percentage(count, total) == [num |-> count * 100, den |-> total]

InRange(p) == 0 <= p.num /\ p.num <= 100 * p.den

IsHundred(p) == p.num = 100 * p.den

SamePercentage(p, q) == p.num * q.den = q.num * p.den

\* total_expected = 48  # 2 locations x 2 years x 12 months
total_expected == Len(LOCATIONS) * Len(YEARS) * NMonths

WeatherBody(key) == <<"weather_csv", key>>

(***************************************************************************)
(* The weather DAG                                                         *)
(***************************************************************************)
TaskIds == {<<l, y>> : l \in Range(LOCATIONS), y \in Range(YEARS)}

\* s3_key = f"weather-data/location={location}/year={year}/month={month:02d}/..."
\* of every iteration of every task
TaskKeys == [t \in TaskIds |-> [month \in 1..NMonths |-> WeatherKey(t[1], t[2], month)]]

NoInfo ==
    [existing_files |-> <<>>, missing_files |-> <<>>, total_expected |-> 0,
     completion_percentage |-> Percentage(0, 1)]

NoTaskSummary ==
    [total_processed |-> 0, total_skipped |-> 0, total_failed |-> 0,
     success_rate |-> Percentage(0, 1)]

NewTask ==
    [month |-> 1, processed_files |-> <<>>, skipped_files |-> <<>>,
     failed_files |-> <<>>, returned |-> FALSE, summary |-> NoTaskSummary]

NoReport ==
    [total_expected_files |-> 0, current_files_count |-> 0,
     completion_percentage |-> Percentage(0, 1), this_run_processed |-> 0,
     this_run_skipped |-> 0, this_run_failed |-> 0, status |-> "none"]

NewWHist(st) ==
    [startKeys |-> DOMAIN st, http |-> 0, fetched |-> 0, writes |-> 0,
     probes |-> 0, faults |-> 0, refetch |-> FALSE, nodaily |-> {},
     unslept |-> FALSE, unthrottled |-> FALSE]

WeatherRunning == path = "weather"

\* validate_aws_connectivity: check_for_bucket, load_string(test_key), delete_objects
ValidateAws ==
    /\ WeatherRunning /\ wpc = "validate"
    /\ UNCHANGED <<keyVars, fetchVars, tripVars, manualVars, gbfsVars, path, reachable, dstate, wrun, existing_files_info,
                   wtask, final_report, wprev>>
    /\ \/ /\ reachable
          /\ store' = [k \in DOMAIN Put(store, test_key, <<"probe">>) \ {test_key}
                        |-> store[k]]
          /\ whist' = [whist EXCEPT !.probes = @ + 1]
          /\ wpc' = "check"
          /\ UNCHANGED faults
       \/ \* check_for_bucket is False or raises: AirflowException, the run stops
          /\ ~reachable
          /\ whist' = [whist EXCEPT !.faults = @ + 1]
          /\ wpc' = "aborted"
          /\ UNCHANGED <<faults, store>>
       \/ \* the bucket is not accessible: AirflowException, the run stops
          /\ faults < MaxFaults
          /\ faults' = faults + 1
          /\ whist' = [whist EXCEPT !.faults = @ + 1]
          /\ wpc' = "aborted"
          /\ UNCHANGED store
       \/ \* delete_objects raises: the test object stays, the run stops
          /\ faults < MaxFaults
          /\ faults' = faults + 1
          /\ store' = Put(store, test_key, <<"probe">>)
          /\ whist' = [whist EXCEPT !.probes = @ + 1, !.faults = @ + 1]
          /\ wpc' = "aborted"

\* a listing test that takes every expected key for present
InListingAlways(key, existing_keys) == TRUE

\* expected_key in existing_keys
InListing(key, existing_keys) == key \in existing_keys

\* a check that also reports every existing file as missing
ExistingFilesInfoAllMissing(st) ==
    LET existing_keys == ListWeatherKeys(st)
        existing_files ==
            SelectSeq(expected_files, LAMBDA k : InListing(k, existing_keys))
    IN  [existing_files |-> existing_files,
         missing_files |-> expected_files,
         total_expected |-> Len(expected_files),
         completion_percentage |-> Percentage(Len(existing_files), Len(expected_files))]

\* what check_existing_files returns for the bucket st
ExistingFilesInfo(st) ==
    LET existing_keys == ListWeatherKeys(st)
        existing_files ==
            SelectSeq(expected_files, LAMBDA k : InListing(k, existing_keys))
        missing_files ==
            SelectSeq(expected_files, LAMBDA k : ~InListing(k, existing_keys))
    IN  [existing_files |-> existing_files,
         missing_files |-> missing_files,
         total_expected |-> Len(expected_files),
         completion_percentage |-> Percentage(Len(existing_files), Len(expected_files))]

\* check_existing_files
CheckExistingFiles ==
    /\ WeatherRunning /\ wpc = "check"
    /\ UNCHANGED <<keyVars, fetchVars, tripVars, manualVars, gbfsVars, path, reachable, dstate, store, wrun, wtask,
                   final_report, wprev>>
    /\ \/ /\ existing_files_info' = ExistingFilesInfo(store)
          /\ wpc' = "process"
          /\ UNCHANGED <<faults, whist>>
       \/ \* list_keys raises: AirflowException, the run stops
          /\ faults < MaxFaults
          /\ faults' = faults + 1
          /\ whist' = [whist EXCEPT !.faults = @ + 1]
          /\ wpc' = "aborted"
          /\ UNCHANGED existing_files_info

\* a task that ignores the existence snapshot
InSnapshotNever(s3_key, existing_files) == FALSE

\* if s3_key in existing_files: skipped_files.append(s3_key); continue
InSnapshot(s3_key, existing_files) == s3_key \in existing_files

\* the except clause of the loop body ends with `continue`
NextMonthAfterFailure(month) == month + 1

\* one iteration of `for month in MONTHS` of process_location_year(location, year)
ProcessMonth(t) ==
    /\ WeatherRunning /\ wpc = "process"
    /\ wtask[t].month <= NMonths
    /\ UNCHANGED <<keyVars, fetchVars, tripVars, manualVars, gbfsVars, path, reachable, dstate, wrun, wpc,
                   existing_files_info, final_report, wprev>>
    /\ LET month == wtask[t].month
           s3_key == TaskKeys[t][month]
           existing_files == Range(existing_files_info.existing_files)
       IN  \/ /\ InSnapshot(s3_key, existing_files)
              /\ wtask' = [wtask EXCEPT ![t].skipped_files = Append(@, s3_key),
                                        ![t].month = month + 1]
              /\ UNCHANGED <<faults, store, whist>>
           \/ /\ ~InSnapshot(s3_key, existing_files)
              /\ \E r \in FetchOutcomes :
                   LET bad == IF r.status = "ok" /\ r.attempts = 1 THEN 0 ELSE 1
                       h == [whist EXCEPT !.http = @ + r.attempts,
                                          !.fetched = @ + 1,
                                          !.faults = @ + bad,
                                          !.refetch = @ \/ CheckForKey(s3_key),
                                          !.nodaily = IF r.response = "nodaily"
                                                      THEN @ \cup {s3_key} ELSE @,
                                          !.unthrottled = @ \/ SentUnthrottled(whist.unslept, r),
                                          \* time.sleep(API_RATE_LIMIT_DELAY) is reached only after the upload
                                          !.unslept = TRUE]
                   IN  /\ faults + bad <= MaxFaults
                       /\ \/ \* fetch_weather_data_for_month raised
                             /\ r.status = "failed"
                             /\ faults' = faults + bad
                             /\ wtask' = [wtask EXCEPT
                                    ![t].failed_files =
                                        Append(@, [key |-> s3_key, error |-> r.error]),
                                    ![t].month = NextMonthAfterFailure(month)]
                             /\ whist' = h
                             /\ UNCHANGED store
                          \/ \* load_string stores the CSV
                             /\ r.status = "ok"
                             /\ faults' = faults + bad
                             /\ store' = Put(store, s3_key, WeatherBody(s3_key))
                             /\ wtask' = [wtask EXCEPT
                                    ![t].processed_files = Append(@, s3_key),
                                    ![t].month = month + 1]
                             /\ whist' = [h EXCEPT !.writes = @ + 1, !.unslept = FALSE]
                          \/ \* load_string returns and the object is not there
                             /\ r.status = "ok"
                             /\ faults + bad < MaxFaults
                             /\ faults' = faults + bad + 1
                             /\ wtask' = [wtask EXCEPT
                                    ![t].processed_files = Append(@, s3_key),
                                    ![t].month = month + 1]
                             /\ whist' = [h EXCEPT !.writes = @ + 1, !.faults = @ + 1,
                                              !.unslept = FALSE]
                             /\ UNCHANGED store
                          \/ \* load_string raises
                             /\ r.status = "ok"
                             /\ faults + bad < MaxFaults
                             /\ faults' = faults + bad + 1
                             /\ wtask' = [wtask EXCEPT
                                    ![t].failed_files =
                                        Append(@, [key |-> s3_key, error |-> "upload failed"]),
                                    ![t].month = NextMonthAfterFailure(month)]
                             /\ whist' = [h EXCEPT !.writes = @ + 1, !.faults = @ + 1]
                             /\ UNCHANGED store

\* a rate that is 0 when nothing was attempted
SuccessRateZero(processed, failed) ==
    IF processed + failed > 0
    THEN Percentage(processed, processed + failed)
    ELSE Percentage(0, 1)

\* len(processed) / (len(processed) + len(failed)) * 100 if that sum > 0 else 100
SuccessRate(processed, failed) ==
    IF processed + failed > 0
    THEN Percentage(processed, processed + failed)
    ELSE Percentage(1, 1)

\* the summary process_location_year returns after its loop
TaskReturn(t) ==
    /\ WeatherRunning /\ wpc = "process"
    /\ wtask[t].month > NMonths
    /\ ~wtask[t].returned
    /\ wtask' = [wtask EXCEPT
            ![t].returned = TRUE,
            ![t].summary =
                [total_processed |-> Len(wtask[t].processed_files),
                 total_skipped |-> Len(wtask[t].skipped_files),
                 total_failed |-> Len(wtask[t].failed_files),
                 success_rate |-> SuccessRate(Len(wtask[t].processed_files),
                                              Len(wtask[t].failed_files))]]
    /\ UNCHANGED <<keyVars, fetchVars, tripVars, manualVars, gbfsVars, path, reachable, dstate, faults, store, wrun, wpc,
                   existing_files_info, final_report, whist, wprev>>

\* summaries = [chicago_2023, chicago_2024, evanston_2023, evanston_2024]
summaries == <<<<"chicago", 2023>>, <<"chicago", 2024>>,
               <<"evanston", 2023>>, <<"evanston", 2024>>>>

RECURSIVE Sum(_)
Sum(numbers) == IF numbers = <<>> THEN 0 ELSE Head(numbers) + Sum(Tail(numbers))

\* len([f for f in current_files if f.endswith('.csv')])
CountCsv(keys) == Cardinality({k \in keys : EndsWithCsv(k)})

\* generate_final_report
FinalReport(st, tasks) ==
    LET current_count == CountCsv(ListWeatherKeys(st))
    IN  [total_expected_files |-> total_expected,
         current_files_count |-> current_count,
         completion_percentage |-> Percentage(current_count, total_expected),
         this_run_processed |->
            Sum([n \in 1..Len(summaries) |-> tasks[summaries[n]].summary.total_processed]),
         this_run_skipped |->
            Sum([n \in 1..Len(summaries) |-> tasks[summaries[n]].summary.total_skipped]),
         this_run_failed |->
            Sum([n \in 1..Len(summaries) |-> tasks[summaries[n]].summary.total_failed]),
         status |-> IF current_count = total_expected THEN "completed" ELSE "partial"]

GenerateFinalReport ==
    /\ WeatherRunning /\ wpc = "process"
    /\ \A t \in TaskIds : wtask[t].returned
    /\ UNCHANGED <<keyVars, fetchVars, tripVars, manualVars, gbfsVars, path, reachable, dstate, store, wrun,
                   existing_files_info, wtask, wprev>>
    /\ \/ /\ final_report' = FinalReport(store, wtask)
          /\ wpc' = "done"
          /\ UNCHANGED <<faults, whist>>
       \/ \* list_keys raises: AirflowException
          /\ faults < MaxFaults
          /\ faults' = faults + 1
          /\ whist' = [whist EXCEPT !.faults = @ + 1]
          /\ wpc' = "aborted"
          /\ UNCHANGED final_report

\* the DAG is triggered again (schedule=None: by hand)
WeatherNextRun ==
    /\ WeatherRunning /\ wpc \in {"done", "aborted"}
    /\ wrun + 1 \in RunIds
    /\ wrun' = wrun + 1
    /\ wpc' = "validate"
    /\ existing_files_info' = NoInfo
    /\ wtask' = [t \in TaskIds |-> NewTask]
    /\ final_report' = NoReport
    /\ wprev' = [hist |-> whist, report |-> final_report, ended |-> wpc]
    /\ whist' = NewWHist(store)
    /\ UNCHANGED <<keyVars, fetchVars, tripVars, manualVars, gbfsVars, path, reachable, dstate, faults, store>>

WeatherInit ==
    /\ wrun = 1
    /\ wpc = "validate"
    /\ existing_files_info = NoInfo
    /\ wtask = [t \in TaskIds |-> NewTask]
    /\ final_report = NoReport
    /\ whist = NewWHist(store)
    /\ wprev = [hist |-> NewWHist(<<>>), report |-> NoReport, ended |-> "none"]

WeatherIdle ==
    /\ wrun = 0
    /\ wpc = "idle"
    /\ existing_files_info = NoInfo
    /\ wtask = [t \in TaskIds |-> NewTask]
    /\ final_report = NoReport
    /\ whist = NewWHist(<<>>)
    /\ wprev = [hist |-> NewWHist(<<>>), report |-> NoReport, ended |-> "none"]

WeatherNext ==
    \/ ValidateAws
    \/ CheckExistingFiles
    \/ \E t \in TaskIds : ProcessMonth(t)
    \/ \E t \in TaskIds : TaskReturn(t)
    \/ GenerateFinalReport
    \/ WeatherNextRun

(***************************************************************************)
(* The manual weather script                                               *)
(***************************************************************************)
ManualRunning == path = "manual"

\* s3_client.list_objects_v2(Bucket, Prefix) called once, IsTruncated not read:
\* the first MaxKeys keys in the order of their bytes (_SUCCESS, archive/,
\* backup/, location=chicago .. location=evanston, test/)
FirstPage(keys) ==
    LET marker == IF StrayMarker \in keys THEN 1 ELSE 0
        bulk == Cardinality(keys \cap BulkKeys)
        backup == IF StrayCsv \in keys THEN 1 ELSE 0
        index(k) == CHOOSE n \in 1..Len(expected_files) : expected_files[n] = k
        before(k) ==
            CASE k = StrayMarker -> 0
              [] k = StrayCsv -> marker + bulk
              [] k \in ExpectedKeys ->
                    marker + bulk + backup
                        + Cardinality({j \in keys \cap ExpectedKeys : index(j) < index(k)})
              [] OTHER -> Cardinality(keys) - 1
        bulkBefore(n) == marker + Cardinality({m \in 1..(n - 1) : bulk_files[m] \in keys})
    IN  IF Cardinality(keys) <= MaxKeys
        THEN keys
        ELSE {k \in keys \ BulkKeys : before(k) < MaxKeys}
                \cup {bulk_files[n] : n \in {m \in 1..MaxKeys :
                            /\ bulk_files[m] \in keys
                            /\ (marker + m - 1 < MaxKeys \/ bulkBefore(m) < MaxKeys)}}

\* check_existing_files(s3_client): the keys under weather-data/ that end with .csv
ListCsv(st) == {k \in FirstPage(ListWeatherKeys(st)) : EndsWithCsv(k)}

\* the (location, year, month) triples in the order of the three loops
ExpectedTriples(nmonths) ==
    [n \in 1..(Len(LOCATIONS) * Len(YEARS) * nmonths) |->
        <<LOCATIONS[((n - 1) \div (Len(YEARS) * nmonths)) + 1],
          YEARS[(((n - 1) \div nmonths) % Len(YEARS)) + 1],
          ((n - 1) % nmonths) + 1>>]

\* get_missing_files(existing_files)
GetMissingFiles(existing_set) ==
    SelectSeq(ExpectedTriples(NMonths),
              LAMBDA u : WeatherKey(u[1], u[2], u[3]) \notin existing_set)

NoPercentage == Percentage(0, 1)

\* existing_files = check_existing_files(s3_client); missing = get_missing_files(...)
ManualStart ==
    /\ ManualRunning /\ mpc = "start"
    /\ UNCHANGED <<keyVars, fetchVars, tripVars, weatherVars, gbfsVars, path, reachable, dstate, store, mrun,
                   mi, successful_uploads, failed_uploads, completion_percentage, mprev>>
    /\ \/ /\ GetMissingFiles(ListCsv(store)) = <<>>
          /\ missing' = <<>>
          /\ mpc' = "complete"
          /\ UNCHANGED <<faults, mhist>>
       \/ /\ GetMissingFiles(ListCsv(store)) # <<>>
          /\ missing' = GetMissingFiles(ListCsv(store))
          /\ mpc' = "loop"
          /\ UNCHANGED <<faults, mhist>>
       \/ \* list_objects_v2 raises ClientError: main raises
          /\ faults < MaxFaults
          /\ faults' = faults + 1
          /\ mhist' = [mhist EXCEPT !.faults = @ + 1]
          /\ mpc' = "raised"
          /\ UNCHANGED missing

\* the except clause of the loop body ends with `continue`
NextFileAfterFailure(n) == n + 1

\* one iteration of `for i, (location, year, month) in enumerate(missing, 1)`
ManualUnit ==
    /\ ManualRunning /\ mpc = "loop"
    /\ mi <= Len(missing)
    /\ UNCHANGED <<keyVars, fetchVars, tripVars, weatherVars, gbfsVars, path, reachable, dstate, mrun, mpc,
                   missing, completion_percentage, mprev>>
    /\ LET u == missing[mi]
           s3_key == WeatherKey(u[1], u[2], u[3])
       IN  \E r \in FetchOutcomes :
             LET bad == IF r.status = "ok" /\ r.attempts = 1 THEN 0 ELSE 1
                 h == [mhist EXCEPT !.http = @ + r.attempts,
                                    !.fetched = @ + 1,
                                    !.faults = @ + bad,
                                    !.refetch = @ \/ CheckForKey(s3_key),
                                    !.nodaily = IF r.response = "nodaily"
                                                THEN @ \cup {s3_key} ELSE @,
                                    !.unthrottled = @ \/ SentUnthrottled(mhist.unslept, r),
                                    \* time.sleep(API_RATE_LIMIT_DELAY) is reached only after the upload
                                    !.unslept = TRUE]
             IN  /\ faults + bad <= MaxFaults
                 /\ \/ \* fetch_weather_data_for_month raised
                       /\ r.status = "failed"
                       /\ faults' = faults + bad
                       /\ failed_uploads' = Append(failed_uploads, <<u[1], u[2], u[3], r.error>>)
                       /\ mi' = NextFileAfterFailure(mi)
                       /\ mhist' = h
                       /\ UNCHANGED <<store, successful_uploads>>
                    \/ \* put_object stores the CSV
                       /\ r.status = "ok"
                       /\ faults' = faults + bad
                       /\ store' = Put(store, s3_key, WeatherBody(s3_key))
                       /\ successful_uploads' = Append(successful_uploads, s3_key)
                       /\ mi' = mi + 1
                       /\ mhist' = [h EXCEPT !.writes = @ + 1, !.unslept = FALSE]
                       /\ UNCHANGED failed_uploads
                    \/ \* put_object returns and the object is not there
                       /\ r.status = "ok"
                       /\ faults + bad < MaxFaults
                       /\ faults' = faults + bad + 1
                       /\ successful_uploads' = Append(successful_uploads, s3_key)
                       /\ mi' = mi + 1
                       /\ mhist' = [h EXCEPT !.writes = @ + 1, !.faults = @ + 1,
                                              !.unslept = FALSE]
                       /\ UNCHANGED <<store, failed_uploads>>
                    \/ \* put_object raises ClientError
                       /\ r.status = "ok"
                       /\ faults + bad < MaxFaults
                       /\ faults' = faults + bad + 1
                       /\ failed_uploads' =
                            Append(failed_uploads, <<u[1], u[2], u[3], "upload failed">>)
                       /\ mi' = NextFileAfterFailure(mi)
                       /\ mhist' = [h EXCEPT !.writes = @ + 1, !.faults = @ + 1]
                       /\ UNCHANGED <<store, successful_uploads>>

\* final_existing = check_existing_files(s3_client)
\* completion_percentage = (len(final_existing) / 48) * 100
ManualFinalStatus(st) == Percentage(Cardinality(ListCsv(st)), total_expected)

ManualFinal ==
    /\ ManualRunning /\ mpc = "loop"
    /\ mi > Len(missing)
    /\ UNCHANGED <<keyVars, fetchVars, tripVars, weatherVars, gbfsVars, path, reachable, dstate, store, mrun,
                   missing, mi, successful_uploads, failed_uploads, mprev>>
    /\ \/ /\ completion_percentage' = ManualFinalStatus(store)
          /\ mpc' = "done"
          /\ UNCHANGED <<faults, mhist>>
       \/ \* list_objects_v2 raises ClientError: main raises
          /\ faults < MaxFaults
          /\ faults' = faults + 1
          /\ mhist' = [mhist EXCEPT !.faults = @ + 1]
          /\ mpc' = "raised"
          /\ UNCHANGED completion_percentage

\* the script is started again
ManualNextRun ==
    /\ ManualRunning /\ mpc \in {"done", "complete", "raised"}
    /\ mrun + 1 \in RunIds
    /\ mrun' = mrun + 1
    /\ mpc' = "start"
    /\ missing' = <<>>
    /\ mi' = 1
    /\ successful_uploads' = <<>>
    /\ failed_uploads' = <<>>
    /\ completion_percentage' = NoPercentage
    /\ mprev' = [hist |-> mhist, completion_percentage |-> completion_percentage,
                 ended |-> mpc, failed |-> Len(failed_uploads)]
    /\ mhist' = NewWHist(store)
    /\ UNCHANGED <<keyVars, fetchVars, tripVars, weatherVars, gbfsVars, path, reachable, dstate, faults, store>>

ManualInit ==
    /\ mrun = 1
    /\ mpc = "start"
    /\ missing = <<>>
    /\ mi = 1
    /\ successful_uploads = <<>>
    /\ failed_uploads = <<>>
    /\ completion_percentage = NoPercentage
    /\ mhist = NewWHist(store)
    /\ mprev = [hist |-> NewWHist(<<>>), completion_percentage |-> NoPercentage,
                ended |-> "none", failed |-> 0]

ManualIdle ==
    /\ mrun = 0
    /\ mpc = "idle"
    /\ missing = <<>>
    /\ mi = 0
    /\ successful_uploads = <<>>
    /\ failed_uploads = <<>>
    /\ completion_percentage = NoPercentage
    /\ mhist = NewWHist(<<>>)
    /\ mprev = [hist |-> NewWHist(<<>>), completion_percentage |-> NoPercentage,
                ended |-> "none", failed |-> 0]

ManualNext ==
    \/ ManualStart
    \/ ManualUnit
    \/ ManualFinal
    \/ ManualNextRun

(***************************************************************************)
(* The GBFS DAG                                                            *)
(***************************************************************************)
GbfsRunning == path = "gbfs"

D0 == [year |-> 2025, month |-> 7, day |-> 27, hour |-> 9, minute |-> 5,
       second |-> 0, microsecond |-> 0]

\* execution dates of the runs: one, the same within the second, one second later
GbfsDates == {D0, [D0 EXCEPT !.microsecond = 500000], [D0 EXCEPT !.second = 1]}

\* bodies of the feed: the full envelope, one without last_updated, one without
\* data, and an HTTP error status
GbfsResponses == {"ok", "no_last_updated", "no_data", "http_error"}

HasData(resp) == resp \in {"ok", "no_last_updated"}

HasLastUpdated(resp) == resp \in {"ok", "no_data"}

\* "data_timestamp": data.get('last_updated', execution_date.timestamp())
EnrichedData(endpoint_name, d, resp) ==
    [endpoint_name |-> endpoint_name,
     fetch_timestamp |-> d,
     data_timestamp |-> IF HasLastUpdated(resp) THEN "last_updated" ELSE "execution_date",
     raw_data |-> resp]

\* before validate_bronze_data has run
NoValidation ==
    [listing |-> [e \in Range(GBFS_ENDPOINTS) |-> "keys"],
     overall_status |-> "none", endpoints_validated |-> <<>>]

NewGHist ==
    [gets |-> 0, writes |-> 0, refetch |-> FALSE, written |-> {},
     prevDate |-> D0, prevWritten |-> {}, prevKeys |-> {}]

\* fetch_and_store_gbfs_data(endpoint_name, url, **context)
FetchAndStoreGbfsData(endpoint_name) ==
    /\ GbfsRunning
    /\ gresult[endpoint_name] = ""
    /\ UNCHANGED <<keyVars, fetchVars, tripVars, weatherVars, manualVars, path, reachable, dstate, grun,
                   execution_date, validation>>
    /\ LET s3_key == GbfsKey(endpoint_name, execution_date)
           h == [ghist EXCEPT !.gets = @ + 1, !.refetch = @ \/ CheckForKey(s3_key)]
       IN  \E resp \in GbfsResponses :
             \/ \* raise_for_status raises
                /\ resp = "http_error"
                /\ faults < MaxFaults
                /\ faults' = faults + 1
                /\ gresult' = [gresult EXCEPT ![endpoint_name] = "raised"]
                /\ ghist' = h
                /\ UNCHANGED store
             \/ \* if 'data' not in data: raise ValueError
                /\ resp # "http_error"
                /\ ~HasData(resp)
                /\ gresult' = [gresult EXCEPT ![endpoint_name] = "raised"]
                /\ ghist' = h
                /\ UNCHANGED <<store, faults>>
             \/ \* load_string(json_data, s3_key, replace=True)
                /\ resp # "http_error"
                /\ HasData(resp)
                /\ store' = Put(store, s3_key, EnrichedData(endpoint_name, execution_date, resp))
                /\ gresult' = [gresult EXCEPT ![endpoint_name] = s3_key]
                /\ ghist' = [h EXCEPT !.writes = @ + 1, !.written = @ \cup {s3_key}]
                /\ UNCHANGED faults
             \/ \* load_string raises
                /\ resp # "http_error"
                /\ HasData(resp)
                /\ faults < MaxFaults
                /\ faults' = faults + 1
                /\ gresult' = [gresult EXCEPT ![endpoint_name] = "raised"]
                /\ ghist' = [h EXCEPT !.writes = @ + 1]
                /\ UNCHANGED store

\* the DAG is triggered again, or the run is cleared and runs again with its date
GbfsNextRun ==
    /\ GbfsRunning
    /\ \A e \in Range(GBFS_ENDPOINTS) : gresult[e] # ""
    /\ grun + 1 \in RunIds
    /\ grun' = grun + 1
    /\ execution_date' \in GbfsDates
    /\ gresult' = [e \in Range(GBFS_ENDPOINTS) |-> ""]
    /\ ghist' = [NewGHist EXCEPT !.prevDate = execution_date,
                                 !.prevWritten = ghist.written,
                                 !.prevKeys = DOMAIN store]
    /\ UNCHANGED <<keyVars, fetchVars, tripVars, weatherVars, manualVars, path, reachable, dstate, faults, store,
                   validation>>

GbfsInit ==
    /\ grun = 1
    /\ execution_date \in GbfsDates
    /\ gresult = [e \in Range(GBFS_ENDPOINTS) |-> ""]
    /\ ghist = NewGHist
    /\ validation = NoValidation

GbfsIdle ==
    /\ grun = 0
    /\ execution_date = D0
    /\ gresult = [e \in Range(GBFS_ENDPOINTS) |-> ""]
    /\ ghist = NewGHist
    /\ validation = NoValidation

GbfsNext ==
    \/ \E e \in Range(GBFS_ENDPOINTS) : FetchAndStoreGbfsData(e)
    \/ GbfsNextRun

(***************************************************************************)
(* Key builders applied to a pair of units                                 *)
(***************************************************************************)
KeyInit ==
    /\ reachable = TRUE
    /\ dstate = <<>>
    /\ path = "keys"
    /\ faults = 0
    /\ store = <<>>
    /\ TripIdle
    /\ FetchIdle
    /\ WeatherIdle
    /\ ManualIdle
    /\ GbfsIdle
    /\ ku1 \in AllUnits
    /\ ku2 \in AllUnits
    /\ kk1 = ""
    /\ kk2 = ""

KeyIdle ==
    /\ ku1 = <<"none">>
    /\ ku2 = <<"none">>
    /\ kk1 = ""
    /\ kk2 = ""

BuildKeys ==
    /\ kk1 = ""
    /\ kk1' = BuildKey(ku1)
    /\ kk2' = BuildKey(ku2)
    /\ UNCHANGED <<ku1, ku2, path, reachable, dstate, faults, store, tripVars, fetchVars, weatherVars,
                   manualVars, gbfsVars>>

SpecKeys == KeyInit /\ [][BuildKeys]_vars

(***************************************************************************)
(* fetch_weather_data_for_month applied to one unit                        *)
(***************************************************************************)
InitFetch ==
    /\ reachable = TRUE
    /\ dstate = <<>>
    /\ path = "fetch"
    /\ faults = 0
    /\ store = <<>>
    /\ KeyIdle
    /\ TripIdle
    /\ WeatherIdle
    /\ ManualIdle
    /\ GbfsIdle
    /\ fscript \in Scripts
    /\ fresult = NoResult

FetchMonth ==
    /\ fresult = NoResult
    /\ fresult' = FetchWeather(fscript)
    /\ UNCHANGED <<keyVars, path, reachable, dstate, faults, store, tripVars, weatherVars, manualVars,
                   gbfsVars, fscript>>

SpecFetch == InitFetch /\ [][FetchMonth]_vars

\* C9 (as stated): HTTP 500 three times in a row, then 200: the unit succeeds.
C9_ThreeFailuresThenSuccess ==
    (/\ fresult # NoResult
     /\ fscript[1] = "http500" /\ fscript[2] = "http500" /\ fscript[3] = "http500"
     /\ fscript[4] = "ok")
        => fresult.status = "ok"

\* C9 (amended): HTTP 500 twice, then 200: the unit succeeds on the third
\* request, after two retries (waits of 2 s and 4 s); HTTP 500 three times in a
\* row: the unit fails after three requests and the fourth is never sent.
C9_TwoFailuresThenSuccess ==
    /\ (/\ fresult # NoResult
        /\ fscript[1] = "http500" /\ fscript[2] = "http500" /\ fscript[3] = "ok")
            => (/\ fresult.status = "ok"
                /\ fresult.attempts = 3
                /\ fresult.sleeps = <<2, 4>>)
    /\ (/\ fresult # NoResult
        /\ fscript[1] = "http500" /\ fscript[2] = "http500" /\ fscript[3] = "http500")
            => (/\ fresult.status = "failed"
                /\ fresult.attempts = 3
                /\ fresult.sleeps = <<2, 4>>)

C9_Witness ==
    /\ fresult # NoResult
    /\ fscript[1] = "http500" /\ fscript[2] = "http500" /\ fscript[3] = "ok"
    /\ fresult.status = "ok"
    /\ Len(fresult.sleeps) = 2

\* C10: a 4xx answer is not retried: the unit fails after exactly one request.
C10_NoRetryOn4xx ==
    (fresult # NoResult /\ fscript[1] = "http404")
        => (fresult.status = "failed" /\ fresult.attempts = 1)

(***************************************************************************)
(* The ingestion programs, one per behaviour                               *)
(***************************************************************************)
\* objects that were in the bucket before the run
OldBody == <<"old">>

InitTrips ==
    /\ reachable \in BOOLEAN
    /\ dstate = <<>>
    /\ path = "trips"
    /\ KeyIdle /\ FetchIdle /\ WeatherIdle /\ ManualIdle /\ GbfsIdle
    /\ faults = 0
    /\ \E ys \in SUBSET Range(YEARS_TO_PROCESS), ms \in SUBSET (1..NMonths) :
            store = [k \in {TargetKey(y, m) : y \in ys, m \in ms} |-> OldBody]
    /\ TripInit

InitWeather ==
    /\ reachable \in BOOLEAN
    /\ dstate = <<>>
    /\ path = "weather"
    /\ KeyIdle /\ FetchIdle /\ TripIdle /\ ManualIdle /\ GbfsIdle
    /\ faults = 0
    /\ \E ls \in SUBSET Range(LOCATIONS), ys \in SUBSET Range(YEARS), ms \in SUBSET (1..NMonths) :
            store = [k \in {WeatherKey(l, y, m) : l \in ls, y \in ys, m \in ms} |-> OldBody]
    /\ WeatherInit

InitManual ==
    /\ reachable = TRUE
    /\ dstate = <<>>
    /\ path = "manual"
    /\ KeyIdle /\ FetchIdle /\ TripIdle /\ WeatherIdle /\ GbfsIdle
    /\ faults = 0
    /\ \E ls \in SUBSET Range(LOCATIONS), ys \in SUBSET Range(YEARS), ms \in SUBSET (1..NMonths) :
            store = [k \in {WeatherKey(l, y, m) : l \in ls, y \in ys, m \in ms} |-> OldBody]
    /\ ManualInit

InitGbfs ==
    /\ reachable = TRUE
    /\ dstate = <<>>
    /\ path = "gbfs"
    /\ KeyIdle /\ FetchIdle /\ TripIdle /\ WeatherIdle /\ ManualIdle
    /\ faults = 0
    /\ store = <<>>
    /\ GbfsInit

Init == InitTrips \/ InitWeather \/ InitManual \/ InitGbfs

Next ==
    \/ TripNext
    \/ WeatherNext
    \/ ManualNext
    \/ GbfsNext

Spec == Init /\ [][Next]_vars

SpecTrips == InitTrips /\ [][TripNext]_vars

SpecWeather == InitWeather /\ [][WeatherNext]_vars

SpecManual == InitManual /\ [][ManualNext]_vars

SpecGbfs == InitGbfs /\ [][GbfsNext]_vars

(***************************************************************************)
(* copy_to_bronze applied to one archive                                   *)
(***************************************************************************)
\* how many members an archive given to copy_to_bronze has at most
MaxMembers == 3

\* member names: the month's CSV, its resource-fork twin in a folder, a CSV of
\* another table, a backup of the CSV, a text file
MemberNames ==
    {CsvName(2023, 1),
     <<"__MACOSX/._", "202301", "-", "divvy-tripdata", ".csv">>,
     <<"stations", ".csv">>,
     <<"202301", "-", "divvy-tripdata", ".csv", ".bak">>,
     <<"readme", ".txt">>}

\* the name lists of zip_file.namelist(), in archive order
NameLists == UNION {[1..len -> MemberNames] : len \in 0..MaxMembers}

\* each member's bytes are its own
MembersOf(names) ==
    [n \in 1..Len(names) |-> [name |-> names[n], bytes |-> <<"member", n>>]]

\* file_info of the call
copy_file_info == files_to_process[1]

InitExtract ==
    /\ reachable = TRUE
    /\ dstate = <<>>
    /\ path = "extract"
    /\ KeyIdle /\ FetchIdle /\ WeatherIdle /\ ManualIdle /\ GbfsIdle
    /\ faults = 0
    /\ store \in {<<>>, [k \in {copy_file_info.target_key} |-> OldBody]}
    /\ source = <<>>
    /\ trun = 0
    /\ tpc = "idle"
    /\ ti = 0
    /\ \/ zip_content = NoZip
       \/ \E names \in NameLists :
            zip_content = [is_zip |-> TRUE, members |-> MembersOf(names)]
    /\ csv_content = NoBytes
    /\ results = <<>>
    /\ counters = NoCounters
    /\ summary = NoSummary
    /\ tcur = NoCur
    /\ thist = NewHist(<<>>)
    /\ tprev = NewHist(<<>>)

\* copy_to_bronze(file_info) with validation_status 'valid'; zip_content is what
\* the download returned
CopyToBronze ==
    /\ path = "extract" /\ tpc = "idle"
    /\ UNCHANGED <<keyVars, fetchVars, weatherVars, manualVars, gbfsVars, path, reachable, dstate,
                   source, trun, ti, zip_content, results, counters, summary, tcur,
                   thist, tprev>>
    /\ \/ \* if file_info.get('target_exists', False): copy_status = 'skipped'
          /\ CheckForKey(copy_file_info.target_key)
          /\ tpc' = "skipped"
          /\ UNCHANGED <<store, csv_content, faults>>
       \/ \* zipfile.ZipFile raises BadZipFile
          /\ ~CheckForKey(copy_file_info.target_key)
          /\ ~zip_content.is_zip
          /\ tpc' = "raised"
          /\ UNCHANGED <<store, csv_content, faults>>
       \/ \* raise Exception("No CSV file found in ZIP archive...")
          /\ ~CheckForKey(copy_file_info.target_key)
          /\ zip_content.is_zip
          /\ SelectMember(zip_content.members) = 0
          /\ tpc' = "raised"
          /\ UNCHANGED <<store, csv_content, faults>>
       \/ \* zip_file.read(csv_filename), load_bytes, check_for_key
          /\ ~CheckForKey(copy_file_info.target_key)
          /\ zip_content.is_zip
          /\ SelectMember(zip_content.members) # 0
          /\ csv_content' = zip_content.members[SelectMember(zip_content.members)].bytes
          /\ \/ /\ store' = Put(store, copy_file_info.target_key, csv_content')
                /\ tpc' = "success"
                /\ UNCHANGED faults
             \/ \* load_bytes or check_for_key raises
                /\ faults < MaxFaults
                /\ faults' = faults + 1
                /\ tpc' = "raised"
                /\ UNCHANGED store

NextExtract == CopyToBronze \/ TripNext

SpecExtract == (InitExtract \/ InitTrips) /\ [][NextExtract]_vars

(***************************************************************************)
(* validate_bronze_data applied to one bucket                              *)
(***************************************************************************)
\* a listing that takes the day-level prefix for every endpoint
BronzeDayPrefixKeys(endpoint_name, d, st) ==
    {k \in DOMAIN st : \E e \in ExecDates :
        /\ k = GbfsKey(endpoint_name, e)
        /\ e.year = d.year /\ e.month = d.month /\ e.day = d.day}

\* s3_hook.list_keys(bucket_name=S3_BUCKET, prefix=bronze_prefix): the keys that
\* start with .../endpoint=<name>/year=/month=/day= and, for station_status,
\* /hour=
BronzePrefixKeys(endpoint_name, d, st) ==
    {k \in DOMAIN st : \E e \in ExecDates :
        /\ k = GbfsKey(endpoint_name, e)
        /\ e.year = d.year /\ e.month = d.month /\ e.day = d.day
        /\ endpoint_name = "station_status" => e.hour = d.hour}

\* the bucket holds, per endpoint, the objects of some earlier runs; list_keys
\* returns the keys, returns None or raises, per endpoint
InitValidate ==
    /\ reachable = TRUE
    /\ dstate = <<>>
    /\ path = "validate"
    /\ KeyIdle /\ FetchIdle /\ TripIdle /\ WeatherIdle /\ ManualIdle
    /\ faults = 0
    /\ \E stored \in [Range(GBFS_ENDPOINTS) ->
                        SUBSET {D0, [D0 EXCEPT !.hour = 14], [D0 EXCEPT !.day = 28]}] :
            store = [k \in UNION {{GbfsKey(e, d) : d \in stored[e]} :
                                        e \in Range(GBFS_ENDPOINTS)} |-> OldBody]
    /\ grun = 0
    /\ execution_date \in {D0, [D0 EXCEPT !.second = 1], [D0 EXCEPT !.hour = 14]}
    /\ gresult = [e \in Range(GBFS_ENDPOINTS) |-> ""]
    /\ ghist = NewGHist
    /\ \E listing \in [Range(GBFS_ENDPOINTS) -> {"keys", "none", "raises"}] :
            /\ Cardinality({e \in Range(GBFS_ENDPOINTS) : listing[e] # "keys"}) <= MaxFaults
            /\ validation = [NoValidation EXCEPT !.listing = listing]

\* validate_bronze_data(**context)
ValidateBronzeData ==
    /\ path = "validate"
    /\ validation.overall_status = "none"
    /\ LET report(endpoint_name) ==
               \* len(None) raises TypeError, caught like an error of list_keys
               IF validation.listing[endpoint_name] # "keys"
               THEN [endpoint_name |-> endpoint_name, bronze_file_exists |-> FALSE,
                     status |-> "FAIL"]
               ELSE LET bronze_objects ==
                            BronzePrefixKeys(endpoint_name, execution_date, store)
                    IN  [endpoint_name |-> endpoint_name,
                         bronze_file_exists |-> Cardinality(bronze_objects) > 0,
                         status |-> IF Cardinality(bronze_objects) > 0
                                    THEN "PASS" ELSE "FAIL"]
           endpoints_validated == [n \in 1..Len(GBFS_ENDPOINTS) |-> report(GBFS_ENDPOINTS[n])]
       IN  validation' =
              [validation EXCEPT
                  !.endpoints_validated = endpoints_validated,
                  !.overall_status =
                      IF \E n \in 1..Len(endpoints_validated) :
                            endpoints_validated[n].status = "FAIL"
                      THEN "FAIL" ELSE "PASS"]
    /\ UNCHANGED <<keyVars, fetchVars, tripVars, weatherVars, manualVars, path, reachable,
                   dstate, faults, store, grun, execution_date, gresult, ghist>>

SpecValidate == InitValidate /\ [][ValidateBronzeData]_vars

(***************************************************************************)
(* The dbt transformation DAG                                              *)
(***************************************************************************)
\* default_args['retries']
retries == 2

\* the edges declared with >>, <<upstream, downstream>>
dependencies ==
    {<<"start_task", "clean_dbt">>, <<"clean_dbt", "install_deps">>,
     <<"install_deps", "test_connection">>, <<"test_connection", "check_freshness">>,
     <<"check_freshness", "run_silver_trips">>,
     <<"check_freshness", "run_silver_weather">>,
     <<"check_freshness", "run_silver_stations">>,
     <<"run_silver_trips", "test_silver">>,
     <<"run_silver_weather", "test_silver">>,
     <<"run_silver_stations", "test_silver">>,
     <<"test_silver", "run_gold_trips_enhanced">>,
     <<"test_silver", "run_gold_station_performance">>,
     <<"test_silver", "run_gold_behavioral_analysis">>,
     <<"run_gold_trips_enhanced", "test_gold">>,
     <<"run_gold_station_performance", "test_gold">>,
     <<"run_gold_behavioral_analysis", "test_gold">>,
     <<"test_gold", "run_marts">>, <<"run_marts", "test_marts">>,
     <<"test_marts", "generate_docs">>, <<"test_marts", "run_final_tests">>,
     <<"generate_docs", "end_task">>, <<"run_final_tests", "end_task">>}

\* the operators of the DAG; start_task and end_task are DummyOperators
DbtTasks == {e[1] : e \in dependencies} \cup {e[2] : e \in dependencies}

InitDbt ==
    /\ reachable = TRUE
    /\ path = "dbt"
    /\ KeyIdle /\ FetchIdle /\ TripIdle /\ WeatherIdle /\ ManualIdle /\ GbfsIdle
    /\ faults = 0
    /\ store = <<>>
    /\ dstate = [t \in DbtTasks |-> [state |-> "none", try_number |-> 0]]

\* a scheduler that starts a task whatever the state of its upstream tasks
DbtStartAnyTime(t) ==
    /\ path = "dbt"
    /\ dstate[t].state \in {"none", "up_for_retry"}
    /\ dstate' = [dstate EXCEPT ![t].state = "running", ![t].try_number = @ + 1]
    /\ UNCHANGED <<keyVars, fetchVars, tripVars, weatherVars, manualVars, gbfsVars,
                   path, reachable, faults, store>>

\* the scheduler starts a task (trigger rule all_success): every upstream task
\* has succeeded
DbtStart(t) ==
    /\ path = "dbt"
    /\ dstate[t].state \in {"none", "up_for_retry"}
    /\ \A e \in dependencies : e[2] = t => dstate[e[1]].state = "success"
    /\ dstate' = [dstate EXCEPT ![t].state = "running", ![t].try_number = @ + 1]
    /\ UNCHANGED <<keyVars, fetchVars, tripVars, weatherVars, manualVars, gbfsVars,
                   path, reachable, faults, store>>

\* the bash command of a task ends: exit code 0, or a failure that is retried
\* `retries` times (the try number is kept until the task has ended)
DbtFinish(t) ==
    /\ path = "dbt"
    /\ dstate[t].state = "running"
    /\ \/ dstate' = [dstate EXCEPT ![t] = [state |-> "success", try_number |-> 0]]
       \/ /\ t \notin {"start_task", "end_task"}
          /\ dstate[t].try_number <= retries
          /\ dstate' = [dstate EXCEPT ![t].state = "up_for_retry"]
       \/ /\ t \notin {"start_task", "end_task"}
          /\ dstate[t].try_number > retries
          /\ dstate' = [dstate EXCEPT ![t] = [state |-> "failed", try_number |-> 0]]
    /\ UNCHANGED <<keyVars, fetchVars, tripVars, weatherVars, manualVars, gbfsVars,
                   path, reachable, faults, store>>

\* an upstream task has failed: the task is never run
DbtUpstreamFailed(t) ==
    /\ path = "dbt"
    /\ dstate[t].state = "none"
    /\ \E e \in dependencies :
            e[2] = t /\ dstate[e[1]].state \in {"failed", "upstream_failed"}
    /\ dstate' = [dstate EXCEPT ![t].state = "upstream_failed"]
    /\ UNCHANGED <<keyVars, fetchVars, tripVars, weatherVars, manualVars, gbfsVars,
                   path, reachable, faults, store>>

SpecDbt ==
    InitDbt /\ [][\E t \in DbtTasks : DbtStart(t) \/ DbtFinish(t) \/ DbtUpstreamFailed(t)]_vars

(***************************************************************************)
(* The three completion reports applied to one bucket                      *)
(***************************************************************************)
InitReport ==
    /\ reachable = TRUE
    /\ dstate = <<>>
    /\ path = "report"
    /\ KeyIdle /\ FetchIdle /\ TripIdle /\ WeatherIdle /\ ManualIdle /\ GbfsIdle
    /\ faults = 0
    /\ \E present \in SUBSET (ExpectedKeys \cup {StrayCsv, StrayMarker}) :
       \E others \in {{}, BulkKeys} :
            store = [k \in present \cup others |-> OldBody]

\* check_existing_files, generate_final_report, and the get_missing_files and
\* the final status of the manual script, each on the same bucket
Report ==
    /\ path = "report" /\ wpc = "idle"
    /\ wpc' = "reported"
    /\ existing_files_info' = ExistingFilesInfo(store)
    /\ final_report' = FinalReport(store, wtask)
    /\ completion_percentage' = ManualFinalStatus(store)
    /\ missing' = GetMissingFiles(ListCsv(store))
    /\ UNCHANGED <<keyVars, fetchVars, tripVars, gbfsVars, path, reachable, dstate, faults, store,
                   wrun, wtask, whist, wprev,
                   mrun, mpc, mi, successful_uploads, failed_uploads, mhist, mprev>>

SpecReport == InitReport /\ [][Report]_vars

C2_NeverFetchedWhilePresent ==
    /\ ~tcur.refetch
    /\ ~whist.refetch
    /\ ~mhist.refetch
    /\ ~ghist.refetch

\* C4: a unit that fails does not stop the run: when the loop has ended every
\* unit has an outcome, in the order of the units; each unit whose source holds
\* a good archive, whose key was absent and whose calls did not fail is a
\* success; the summary counts every unit. The same for each weather task and
\* for the manual script: every key of the task, every missing file, is in one
\* of the lists.
C4_FailureIsolated ==
    /\ tpc \in {"return", "returned"} =>
        /\ Len(results) = Len(files_to_process)
        /\ \A n \in 1..Len(results) :
            /\ results[n].target_key = files_to_process[n].target_key
            /\ (/\ source[files_to_process[n].source_key] = "good"
                /\ results[n].target_key \notin thist.startKeys
                /\ ~results[n].fault) => results[n].status = "success"
    /\ tpc = "returned" =>
        /\ summary.total_files = Len(files_to_process)
        /\ summary.successful + summary.skipped + summary.failed = summary.total_files
    /\ \A t \in TaskIds :
        (wpc \in {"process", "done"} /\ wtask[t].month > NMonths) =>
            \A month \in 1..NMonths :
                \/ TaskKeys[t][month] \in Range(wtask[t].processed_files)
                \/ TaskKeys[t][month] \in Range(wtask[t].skipped_files)
                \/ \E n \in 1..Len(wtask[t].failed_files) :
                        wtask[t].failed_files[n].key = TaskKeys[t][month]
    /\ wpc = "done" =>
        final_report.this_run_processed + final_report.this_run_skipped
            + final_report.this_run_failed = total_expected
    /\ mpc = "done" =>
        Len(successful_uploads) + Len(failed_uploads) = Len(missing)

C4_Witness ==
    /\ tpc = "returned"
    /\ \E n \in 1..Len(results) : \E k \in (n + 1)..Len(results) :
        /\ results[n].status = "failed"
        /\ results[n].fault
        /\ results[k].status = "success"

C6_PercentageWithinBounds ==
    wpc = "reported" =>
        /\ \A p \in {existing_files_info.completion_percentage,
                     final_report.completion_percentage,
                     completion_percentage} :
            /\ InRange(p)
            /\ IsHundred(p) => ExpectedKeys \subseteq DOMAIN store
        /\ final_report.status = "completed" => ExpectedKeys \subseteq DOMAIN store

\* C7: a trips unit whose target key is in the bucket is skipped_exists and
\* nothing is downloaded or uploaded for it, whatever the source bucket holds.
C7_PresentTargetSkipped ==
    \A n \in 1..Len(results) :
        (results[n].target_key \in thist.startKeys /\ ~results[n].fault) =>
            /\ results[n].status = "skipped_exists"
            /\ ~results[n].fetched
            /\ ~results[n].uploaded

\* C8: the unit (2023, 1) reads 202301-divvy-tripdata.zip and writes
\* divvy-trips/year=2023/month=01/202301-divvy-tripdata.csv; when the archive
\* has a matching CSV member, the key was absent and no call failed, the unit is
\* a success and the key holds the bytes of that member.
C8_January2023 ==
    /\ files_to_process[1].source_key = "202301-divvy-tripdata.zip"
    /\ files_to_process[1].target_key =
            "divvy-trips/year=2023/month=01/202301-divvy-tripdata.csv"
    /\ (/\ TripsRunning
        /\ Len(results) >= 1
        /\ source["202301-divvy-tripdata.zip"] = "good"
        /\ "divvy-trips/year=2023/month=01/202301-divvy-tripdata.csv"
                \notin thist.startKeys
        /\ ~results[1].fault) =>
            /\ results[1].status = "success"
            /\ CheckForKey("divvy-trips/year=2023/month=01/202301-divvy-tripdata.csv")
            /\ store["divvy-trips/year=2023/month=01/202301-divvy-tripdata.csv"]
                    = CsvBytes(2023, 1)

C8_Witness ==
    /\ trun = 1 /\ tpc = "returned"
    /\ results[1].status = "success"
    /\ results[1].fetched /\ results[1].uploaded
    /\ store["divvy-trips/year=2023/month=01/202301-divvy-tripdata.csv"] = CsvBytes(2023, 1)

\* C11: a weather unit whose API answer is a 200 without 'daily' is in
\* failed_files with its key and the error of the fetch, its key is not in the
\* bucket, and the check_existing_files of the next run reports it missing.
C11_MissingDailyFails ==
    /\ \A t \in TaskIds : \A month \in 1..NMonths :
        (WeatherRunning /\ TaskKeys[t][month] \in whist.nodaily) =>
            /\ [key |-> TaskKeys[t][month], error |-> "Invalid API response"]
                    \in Range(wtask[t].failed_files)
            /\ TaskKeys[t][month] \notin Range(wtask[t].processed_files)
            /\ ~CheckForKey(TaskKeys[t][month])
    /\ (WeatherRunning /\ wrun = 2 /\ wpc \in {"process", "done"}) =>
        \A k \in wprev.hist.nodaily :
            /\ k \in Range(existing_files_info.missing_files)
            /\ k \notin Range(existing_files_info.existing_files)

C11_Witness ==
    /\ WeatherRunning /\ wrun = 2 /\ wpc = "process"
    /\ wprev.hist.nodaily # {}
    /\ wprev.hist.writes > 0

\* C12: the GBFS DAG stores a feed response only when it has both the 'data'
\* envelope and the 'last_updated' field.
C12_StoresOnlyFullEnvelope ==
    GbfsRunning =>
        \A k \in DOMAIN store :
            /\ HasData(store[k].raw_data)
            /\ HasLastUpdated(store[k].raw_data)

\* C13: source_missing is not an error: in the summary the failed counter
\* counts the units that ended as failed and no unit that ended as
\* source_missing.
C13_SourceMissingNotFailed ==
    (TripsRunning /\ tpc = "returned") =>
        summary.failed =
            Cardinality({n \in 1..Len(summary.results) :
                            summary.results[n].status = "failed"})

\* C14: a unit is counted as success (trips), processed (weather DAG) or
\* uploaded (manual script) only when its key has been seen in the bucket after
\* the upload call: the key of every such unit is in the bucket.
C14_SuccessMeansStored ==
    /\ TripsRunning =>
        \A n \in 1..Len(results) :
            results[n].status = "success" => CheckForKey(results[n].target_key)
    /\ WeatherRunning =>
        \A t \in TaskIds : \A n \in 1..Len(wtask[t].processed_files) :
            CheckForKey(wtask[t].processed_files[n])
    /\ ManualRunning =>
        \A n \in 1..Len(successful_uploads) : CheckForKey(successful_uploads[n])

\* C15: within a trips unit the steps are in the order check, fetch, extract,
\* write, verify: no request is sent to the source bucket for the unit before
\* its target key has been checked, the upload comes after the download and the
\* extraction, and a success has gone through all of them.
C15_StepsInOrder ==
    TripsRunning =>
        /\ tcur.requested => tcur.checked
        /\ tcur.uploaded => (tcur.fetched /\ csv_content # NoBytes)
        /\ \A n \in 1..Len(results) :
            results[n].status = "success" => (results[n].fetched /\ results[n].uploaded)

C17_UnreachableAborts ==
    /\ (TripsRunning /\ ~reachable) =>
        /\ thist.downloads = 0
        /\ results = <<>>
        /\ tpc # "returned"
    /\ (WeatherRunning /\ ~reachable) =>
        /\ whist.fetched = 0
        /\ wpc \in {"validate", "aborted"}

\* C19: the four parallel tasks of the weather DAG handle pairwise disjoint
\* sets of keys: in every interleaving no key is stored by two tasks of a run,
\* no task stores a key twice, and a task stores only keys of its own location
\* and year.
C19_TasksWriteDisjointKeys ==
    WeatherRunning =>
        /\ \A t1 \in TaskIds : \A t2 \in TaskIds \ {t1} :
                Range(wtask[t1].processed_files) \cap Range(wtask[t2].processed_files) = {}
        /\ \A t \in TaskIds :
                LET written == wtask[t].processed_files
                IN  /\ \A i \in 1..Len(written) : \A j \in 1..Len(written) :
                            written[i] = written[j] => i = j
                    /\ \A i \in 1..Len(written) :
                            \E month \in MONTHS : written[i] = WeatherKey(t[1], t[2], month)
        /\ whist.writes <= Cardinality(ExpectedKeys)

\* every task has stored a key while another task was still in its loop
C19_Witness ==
    /\ WeatherRunning /\ wpc = "process"
    /\ \A t \in TaskIds : Len(wtask[t].processed_files) >= 1
    /\ \E t \in TaskIds : wtask[t].month <= NMonths
    /\ \E t \in TaskIds : Len(wtask[t].processed_files) = NMonths

\* C20: between any two consecutive HTTP requests to the weather API there is
\* a sleep of at least API_RATE_LIMIT_DELAY, on every path through the loop:
\* after a stored unit, after a failed unit and between retries.
C20_AlwaysThrottled ==
    /\ WeatherRunning => ~whist.unthrottled
    /\ ManualRunning => ~mhist.unthrottled

\* C21: in every execution order of the dbt DAG: 'dbt clean' has completed
\* before 'dbt deps' starts; no silver model runs before the freshness check;
\* no gold model runs before test_silver, which runs only after all three
\* silver models; the marts run only after test_gold, which runs only after
\* all three gold models; the end task runs only after docs and final tests.
C21_DeclaredOrder ==
    path = "dbt" =>
        LET started(t) == dstate[t].state \in {"running", "up_for_retry", "success", "failed"}
            completed(t) == dstate[t].state = "success"
            silver == {"run_silver_trips", "run_silver_weather", "run_silver_stations"}
            gold == {"run_gold_trips_enhanced", "run_gold_station_performance",
                     "run_gold_behavioral_analysis"}
        IN  /\ started("install_deps") => completed("clean_dbt")
            /\ \A t \in silver : started(t) => completed("check_freshness")
            /\ \A t \in gold : started(t) => completed("test_silver")
            /\ started("test_silver") => \A t \in silver : completed(t)
            /\ started("run_marts") => completed("test_gold")
            /\ started("test_gold") => \A t \in gold : completed(t)
            /\ started("end_task") =>
                    completed("generate_docs") /\ completed("run_final_tests")

\* every task before the end task has succeeded and the end task runs
C21_Witness ==
    /\ path = "dbt"
    /\ dstate["end_task"].state = "running"
    /\ \A t \in DbtTasks \ {"end_task"} : dstate[t].state = "success"

\* C24: validate_bronze_data reports PASS exactly when, for each of the three
\* endpoints, the listing succeeds and the bucket holds a key of that endpoint
\* for the day of the execution date (and its hour, for station_status); an
\* error or an absent listing of an endpoint gives FAIL for it and for the
\* report; the report always has one entry per endpoint.
C24_PassIffEveryEndpointStored ==
    (path = "validate" /\ validation.overall_status # "none") =>
        LET d == execution_date
            stored(e) ==
                \E h \in {9, 14} : \E sec \in {0, 1} : \E us \in {0, 500000} :
                    /\ e = "station_status" => h = d.hour
                    /\ CheckForKey(GbfsKey(e, [d EXCEPT !.hour = h, !.second = sec,
                                                        !.microsecond = us]))
            good(e) == validation.listing[e] = "keys" /\ stored(e)
        IN  /\ validation.overall_status = "PASS" <=>
                    \A e \in {"station_information", "station_status",
                               "system_information"} : good(e)
            /\ Len(validation.endpoints_validated) = 3
            /\ \A n \in 1..3 :
                    LET r == validation.endpoints_validated[n]
                    IN  /\ r.endpoint_name = GBFS_ENDPOINTS[n]
                        /\ r.status = (IF good(r.endpoint_name) THEN "PASS" ELSE "FAIL")
                        /\ r.bronze_file_exists = good(r.endpoint_name)

\* station_status has an object of the day but of another hour only, the other
\* endpoints have one of another hour too: the report fails on station_status
C24_Witness ==
    /\ path = "validate"
    /\ validation.overall_status = "FAIL"
    /\ execution_date.hour = 9
    /\ DOMAIN store = {GbfsKey(e, [D0 EXCEPT !.hour = 14]) :
                            e \in {"station_information", "station_status",
                                   "system_information"}}
    /\ validation.endpoints_validated[1].status = "PASS"
    /\ validation.endpoints_validated[2].status = "FAIL"
    /\ validation.endpoints_validated[3].status = "PASS"

\* C22: the retry loop sends at most 3 requests for a unit and returns; it
\* stops at the first request that is answered without an HTTP error; the wait
\* before request k + 1 is API_RATE_LIMIT_DELAY * k (2 s, then 4 s); after the
\* third failed request it raises without sleeping and the unit has failed.
C22_BoundedLinearBackoff ==
    fresult # NoResult =>
        LET failed(n) == fscript[n] \in {"http500", "http404", "timeout"}
            answered == {n \in 1..3 : ~failed(n)}
        IN  /\ fresult.attempts \in 1..3
            /\ answered # {} =>
                    /\ fresult.attempts \in answered
                    /\ \A n \in answered : fresult.attempts <= n
            /\ answered = {} =>
                    /\ fresult.attempts = 3
                    /\ fresult.status = "failed"
            /\ Len(fresult.sleeps) = fresult.attempts - 1
            /\ \A k \in 1..Len(fresult.sleeps) :
                    fresult.sleeps[k] = API_RATE_LIMIT_DELAY * k

\* three requests failed in three ways: two waits, of 2 s and 4 s, and no third
C22_Witness ==
    /\ fresult # NoResult
    /\ fscript[1] = "timeout" /\ fscript[2] = "http500" /\ fscript[3] = "http404"
    /\ fresult.attempts = 3
    /\ fresult.sleeps = <<2, 4>>
    /\ fresult.status = "failed"

\* C23: a run of process_all_files visits each expected unit exactly once, in
\* the order of generate_monthly_files (2 years x 12 months in the program),
\* gives each unit exactly one of the statuses success, skipped_exists,
\* source_missing and failed, and ends: every step moves the run forward in the
\* finite order of (unit, step), and a run that has not returned can step.
C23_EveryUnitOnce ==
    /\ [](TripsRunning =>
            /\ ti \in 1..(Len(files_to_process) + 1)
            /\ Len(results) = (IF tpc \in {"return", "returned"}
                               THEN Len(files_to_process) ELSE ti - 1)
            /\ \A n \in 1..Len(results) :
                    /\ results[n].target_key = files_to_process[n].target_key
                    /\ results[n].status \in
                            {"success", "skipped_exists", "source_missing", "failed"}
            /\ \A n \in 1..Len(files_to_process) :
                    \A k \in 1..Len(files_to_process) :
                        files_to_process[n] = files_to_process[k] => n = k
            /\ Len(GenerateMonthlyFiles(12)) = 24
            /\ tpc # "returned" => ENABLED TripNext)
    /\ [][LET step(pc) ==
                  CASE pc = "source_check" -> 1 [] pc = "target_check" -> 2
                    [] pc = "download" -> 3 [] pc = "extract" -> 4
                    [] pc = "upload" -> 5 [] pc = "verify" -> 6
                    [] pc = "return" -> 7 [] pc = "returned" -> 8
              position(n, pc) == n * 8 + step(pc)
          IN  (TripsRunning /\ trun' = trun) =>
                    position(ti', tpc') > position(ti, tpc)]_vars

\* a run has returned with units of all four statuses
C23_Witness ==
    /\ TripsRunning /\ tpc = "returned"
    /\ {results[n].status : n \in 1..Len(results)} =
            {"success", "skipped_exists", "source_missing", "failed"}

\* C25: in the dictionary process_all_files returns, successful + skipped +
\* failed = total_files, results has exactly one entry per expected unit,
\* successful is the number of entries with status success and skipped the
\* number with status skipped_exists.
C25_SummaryAccounting ==
    (TripsRunning /\ tpc = "returned") =>
        LET with(status) ==
                Cardinality({n \in 1..Len(summary.results) :
                                summary.results[n].status = status})
        IN  /\ summary.total_files = Len(files_to_process)
            /\ summary.successful + summary.skipped + summary.failed = summary.total_files
            /\ Len(summary.results) = summary.total_files
            /\ {summary.results[n].target_key : n \in 1..Len(summary.results)}
                    = TripTargetKeys
            /\ summary.successful = with("success")
            /\ summary.skipped = with("skipped_exists")

\* a returned summary with successful, skipped and failed units
C25_Witness ==
    /\ TripsRunning /\ tpc = "returned"
    /\ summary.successful >= 1
    /\ summary.skipped >= 1
    /\ summary.failed >= 1
    /\ \E n \in 1..Len(summary.results) : summary.results[n].status = "source_missing"

\* C26: when a process_location_year task has returned, its processed_files,
\* skipped_files and failed_files are pairwise disjoint and hold one entry per
\* month of the task (12 in the program), every skipped key was in the snapshot
\* of check_existing_files, and success_rate is within [0, 100] and is 100 when
\* nothing was attempted; in the final report processed + skipped + failed is
\* the number of expected files (48 in the program).
C26_TaskAccounting ==
    /\ \A t \in TaskIds :
        (WeatherRunning /\ wtask[t].returned) =>
            LET processed == Range(wtask[t].processed_files)
                skipped == Range(wtask[t].skipped_files)
                failed == {wtask[t].failed_files[n].key :
                                n \in 1..Len(wtask[t].failed_files)}
            IN  /\ processed \cap skipped = {}
                /\ processed \cap failed = {}
                /\ skipped \cap failed = {}
                /\ Len(wtask[t].processed_files) + Len(wtask[t].skipped_files)
                        + Len(wtask[t].failed_files) = NMonths
                /\ Cardinality(processed \cup skipped \cup failed) = NMonths
                /\ skipped \subseteq Range(existing_files_info.existing_files)
                /\ 0 <= wtask[t].summary.success_rate.num
                /\ wtask[t].summary.success_rate.num
                        <= 100 * wtask[t].summary.success_rate.den
                /\ (processed \cup failed = {}) =>
                        wtask[t].summary.success_rate.num
                            = 100 * wtask[t].summary.success_rate.den
    /\ (WeatherRunning /\ wpc = "done") =>
            final_report.this_run_processed + final_report.this_run_skipped
                + final_report.this_run_failed
                    = Len(LOCATIONS) * Len(YEARS) * NMonths

\* the report was made after a task skipped one month and failed on the other
\* and another task stored both of its months
C26_Witness ==
    /\ WeatherRunning /\ wpc = "done"
    /\ \E t \in TaskIds :
            /\ Len(wtask[t].skipped_files) = 1
            /\ Len(wtask[t].failed_files) = 1
    /\ \E t \in TaskIds : Len(wtask[t].processed_files) = NMonths

\* C27: for any contents of the bucket, check_existing_files returns
\* existing_files and missing_files that are disjoint and together are exactly
\* the expected keys (48 in the program), a key is in existing_files exactly
\* when that string is a key of the bucket, and the call leaves the bucket as
\* it was.
C27_CheckPartitionsExpected ==
    [][(path = "report" /\ wpc' = "reported") =>
        LET existing == Range(existing_files_info'.existing_files)
            absent == Range(existing_files_info'.missing_files)
        IN  /\ store' = store
            /\ existing \cap absent = {}
            /\ existing \cup absent =
                    {WeatherKey(l, y, m) : l \in {"chicago", "evanston"},
                                           y \in {2023, 2024}, m \in 1..NMonths}
            /\ \A k \in existing \cup absent : k \in existing <=> k \in DOMAIN store
            /\ Len(existing_files_info'.existing_files)
                    + Len(existing_files_info'.missing_files)
                        = existing_files_info'.total_expected
            /\ Cardinality(Range(ExpectedFiles(12))) = 48]_vars

\* the check ran on a bucket with some of the expected keys, a CSV that no unit
\* owns and a marker object
C27_Witness ==
    /\ path = "report" /\ wpc = "reported"
    /\ StrayCsv \in DOMAIN store /\ StrayMarker \in DOMAIN store
    /\ Len(existing_files_info.existing_files) = 3
    /\ Len(existing_files_info.missing_files) = Len(expected_files) - 3

\* C28: for any contents of the bucket, the (location, year, month) triples
\* get_missing_files returns over the manual script's listing are, one for
\* one and in the same order, the keys in missing_files of the DAG's
\* check_existing_files.
C28_SameMissingSet ==
    (path = "report" /\ wpc = "reported") =>
        /\ Len(missing) = Len(existing_files_info.missing_files)
        /\ \A n \in 1..Len(missing) :
                n <= Len(existing_files_info.missing_files) =>
                    WeatherKey(missing[n][1], missing[n][2], missing[n][3])
                        = existing_files_info.missing_files[n]

\* C29: a trips unit that ends as source_missing, or that fails at the source
\* check, the target check, the download, the opening of the archive or the
\* choice of the member, and a weather unit whose fetch or whose response
\* check fails, leave the bucket as it was: no step of a unit before its upload
\* call writes to the bucket, a source_missing unit ends at the source check,
\* and a unit that fails anywhere but in its upload or its verification leaves
\* the bucket unchanged.
C29_EarlyFailureLeavesStore ==
    [][/\ (TripsRunning /\ tpc \in {"source_check", "target_check", "download", "extract"})
            => (/\ store' = store
                /\ ~tcur.uploaded
                /\ thist'.writes = thist.writes)
       /\ (TripsRunning /\ trun' = trun /\ Len(results') > Len(results)
                /\ results'[Len(results')].status = "source_missing")
            => (/\ tpc = "source_check"
                /\ ~results'[Len(results')].fetched
                /\ ~results'[Len(results')].uploaded)
       /\ (TripsRunning /\ trun' = trun /\ Len(results') > Len(results)
                /\ results'[Len(results')].status = "failed"
                /\ tpc \notin {"upload", "verify"})
            => store' = store
       /\ \A t \in TaskIds :
            (/\ WeatherRunning /\ wpc = "process" /\ wpc' = "process"
             /\ Len(wtask'[t].failed_files) > Len(wtask[t].failed_files)
             /\ wtask'[t].failed_files[Len(wtask'[t].failed_files)].error
                    \in {"API request failed", "Invalid API response"})
                => (store' = store /\ whist'.writes = whist.writes)]_vars

\* a trips unit failed after its download, on an archive without a matching
\* member, and its key is not in the bucket; or a weather unit failed in its
\* fetch and its key is not in the bucket
C29_Witness ==
    \/ /\ TripsRunning
       /\ \E n \in 1..Len(results) :
            /\ results[n].status = "failed"
            /\ results[n].fetched /\ ~results[n].uploaded /\ ~results[n].fault
            /\ ~CheckForKey(results[n].target_key)
    \/ /\ WeatherRunning
       /\ \E t \in TaskIds : \E n \in 1..Len(wtask[t].failed_files) :
            /\ wtask[t].failed_files[n].error = "Invalid API response"
            /\ ~CheckForKey(wtask[t].failed_files[n].key)

\* C30: when two runs of fetch_and_store_gbfs_data store an endpoint under the
\* same execution_date, the second run writes the key the first one wrote, the
\* object under it is the second run's, and the bucket holds no key it did not
\* hold after the first run; two runs whose execution dates are at least one
\* second apart store the endpoint under different keys.
C30_SameDateSameKey ==
    (GbfsRunning /\ grun = 2) =>
        LET d1 == ghist.prevDate
            d2 == execution_date
            seconds(d) == (d.hour * 60 + d.minute) * 60 + d.second
            later(a, b) == \/ seconds(b) - seconds(a) >= 2
                           \/ seconds(b) - seconds(a) = 1 /\ b.microsecond >= a.microsecond
            apart == \/ <<d1.year, d1.month, d1.day>> # <<d2.year, d2.month, d2.day>>
                     \/ later(d1, d2)
                     \/ later(d2, d1)
            stored == {e \in Range(GBFS_ENDPOINTS) : gresult[e] \in ghist.written}
            storedBefore(e) == GbfsKey(e, d1) \in ghist.prevWritten
        IN  /\ \A e \in stored :
                    /\ gresult[e] \in DOMAIN store
                    /\ store[gresult[e]].fetch_timestamp = d2
                    /\ (d1 = d2 /\ storedBefore(e)) =>
                            /\ gresult[e] = GbfsKey(e, d1)
                            /\ gresult[e] \in ghist.prevKeys
                    /\ (apart /\ storedBefore(e)) => gresult[e] # GbfsKey(e, d1)
                    /\ apart => gresult[e] \notin ghist.prevWritten
            /\ (d1 = d2 /\ \A e \in stored : storedBefore(e))
                    => DOMAIN store = ghist.prevKeys

\* both runs stored every endpoint under one execution_date, or under two that
\* are a second apart
C30_Witness ==
    /\ GbfsRunning
    /\ grun = 2
    /\ \A e \in Range(GBFS_ENDPOINTS) :
            gresult[e] \in ghist.written /\ GbfsKey(e, ghist.prevDate) \in ghist.prevWritten
    /\ \/ execution_date = ghist.prevDate /\ Cardinality(DOMAIN store) = 3
       \/ execution_date.second # ghist.prevDate.second /\ Cardinality(DOMAIN store) = 6

C3_KeyInjective ==
    kk1 # "" => ((ku1 = ku2) <=> (kk1 = kk2))

\* C3 (amended): keys agree exactly for units that are equal up to the
\* sub-second part of a GBFS execution date; every other pair of units, of one
\* source or of two, gets two different keys.
C3_KeyInjectiveToSecond ==
    kk1 # "" => (SameToSecond(ku1, ku2) <=> (kk1 = kk2))

C3_Witness ==
    /\ kk1 # ""
    /\ ku1[1] = "weather" /\ ku2[1] = "weather"
    /\ ku1[2] = ku2[2] /\ ku1[3] = ku2[3] /\ ku1[4] # ku2[4]
    /\ kk1 # kk2

====
